---- MODULE Spec2Model ----
(***************************************************************************)
(* Model of core/divelist.c: the global dive table and trip table, trip    *)
(* membership, selection tracking, autogrouping and the import planner     *)
(* (process_imported_dives / add_imported_dives).                          *)
(*                                                                         *)
(* Pointers are heap keys: a dive pointer is an index into the heap        *)
(* sequence "dive", a trip pointer an index into "trip"; NULL is 0.  The   *)
(* unique id of a dive (dive->id) is handed out at allocation and never    *)
(* reused, so the heap key doubles as the id.  Table indices are 0-based   *)
(* as in the C code; TLA+ sequences are 1-based, so table->dives[i] is     *)
(* tab[i + 1].  Time is counted in days.                                   *)
(***************************************************************************)
EXTENDS Integers, Sequences, FiniteSets, TLC

VARIABLES
    dive,              \* heap of struct dive, indexed by pointer/id
    trip,              \* heap of struct dive_trip, indexed by pointer
    dive_table,        \* struct dive_table dive_table (global)
    trip_table,        \* struct trip_table trip_table (global)
    amount_selected,   \* unsigned int amount_selected, kept as the signed
                       \* reading of its 32 bits: UINT_MAX, the result of
                       \* decrementing 0, is -1, and +1 / -1 are the
                       \* unsigned operations
    current_dive,      \* struct dive *current_dive
    autogroup,         \* bool autogroup
    dive_list_changed, \* static bool dive_list_changed
    pc,                \* position of the single thread of control
    plan,              \* locals and in/out tables of process_imported_dives
    imports,           \* number of calls of add_imported_dives so far
    deco_result,       \* target and return value of the last init_decompression
    last_call,         \* name, argument and return value (0: void) of the
                       \* last call of a function that the model records
    title_updates      \* number of calls of updateWindowTitle() so far

vars == <<dive, trip, dive_table, trip_table, amount_selected, current_dive,
          autogroup, dive_list_changed, pc, plan, imports, deco_result, last_call,
                   title_updates>>

-----------------------------------------------------------------------------
(* Records.  Every record of a kind lists its fields in the order given    *)
(* here.                                                                   *)

\* a zero-initialised dive as alloc_dive() returns it, with the fields the
\* parser or the downloader fills in; cylinder lists the cylinders that
\* get_dive_gas looks at, cns the value that calculate_cns stores
NewDive(wh, du, nt, nu, sg) ==
    [when |-> wh, duration |-> du, divetrip |-> 0,
     selected |-> FALSE, hidden_by_filter |-> FALSE, notrip |-> nt,
     number |-> nu, sig |-> sg, freed |-> FALSE, cylinder |-> <<>>,
     cns |-> 0]

\* a trip as calloc() returns it
NewTrip(ag) == [freed |-> FALSE, dives |-> <<>>, autogen |-> ag]

\* init_decompression was not called yet
NoResult == <<0, 0>>

\* no call recorded
NoCall == <<"", 0, 0>>

\* the locals of add_imported_dives / process_imported_dives while no
\* import is running
IdlePlan ==
    [i |-> 0, import_table |-> <<>>, import_trip_table |-> <<>>, flags |-> {},
     dives_to_add |-> <<>>, dives_to_remove |-> <<>>, trips_to_add |-> <<>>,
     start_renumbering_at |-> 0, preexisting |-> 0,
     sequence_changed |-> FALSE, new_dive_has_number |-> FALSE]

-----------------------------------------------------------------------------
(* Bounds of the model *)

\* largest number of dives created by parsing a file plus importing
MaxDives == 4
\* largest number of trips created by parsing a file plus importing
MaxTrips == 3
\* latest start time (days) of a parsed or imported dive
MaxWhen == 2
\* longest duration (days) of a parsed or imported dive
MaxDuration == 1
\* capacity at which growing a table fails (realloc returns NULL)
MaxTableLen == 4

\* number of stale entries of trip lists up to which the editing of trips
\* is followed
MaxStrayEntries == 0

\* the most dives the caller of unregister_dive keeps out of the table at a
\* time
MaxUnregistered == 1

\* number of calls of add_imported_dives that are followed
MaxImports == 1

\* largest number of a dive of a parsed log
MaxNumber == 2

\* longest duration (days) of a dive of a log in which dives overlap
MaxLongDuration == 2

\* number of add_imported_dives calls over which a set of dives is split
MaxBatches == 2

\* number of passes through the loop over the import trips after which one
\* call of add_imported_dives is no longer followed
MaxPasses == 4

\* number of calls of updateWindowTitle() up to which the saving and
\* changing of the log is followed
MaxTitleUpdates == 3

\* number of cylinders of a dive that are looked at (MAX_CYLINDERS)
MaxCylinders == 3

\* largest CNS value (percent) that calculate_cns computes for a dive
MaxCns == 1

(* Program constants *)

NULL == 0
\* 48 * 60 * 60 seconds, in days
FortyEightHours == 2

\* O2 of air in permille
O2_IN_AIR == 209

\* dive.h: 3 days, the largest gap between dives of one autogrouped trip
TRIP_THRESHOLD == 3

Range(s) == {s[k] : k \in 1..Len(s)}

-----------------------------------------------------------------------------
(* The world: everything an operation of divelist.c can read or write *)

World ==
    [dive |-> dive, trip |-> trip, dive_table |-> dive_table,
     trip_table |-> trip_table, amount_selected |-> amount_selected,
     current_dive |-> current_dive, autogroup |-> autogroup]

SetWorld(w) ==
    /\ dive' = w.dive
    /\ trip' = w.trip
    /\ dive_table' = w.dive_table
    /\ trip_table' = w.trip_table
    /\ amount_selected' = w.amount_selected
    /\ current_dive' = w.current_dive
    /\ autogroup' = w.autogroup

\* calloc(1, sizeof(dive_trip_t))
alloc_trip(w) ==
    [w EXCEPT !.trip = Append(@, NewTrip(FALSE))]

\* create_trip_from_dive: the new trip is the last one of the heap
create_trip_from_dive(w, d) == alloc_trip(w)

\* free(trip)
free_trip(w, t) ==
    IF t = NULL THEN w ELSE [w EXCEPT !.trip[t].freed = TRUE]

\* free_dive(dive)
free_dive(w, d) == [w EXCEPT !.dive[d].freed = TRUE]

dive_endtime(w, d) == w.dive[d].when + w.dive[d].duration

-----------------------------------------------------------------------------
(* Comparison functions *)

trip_date(w, t) ==
    IF t = NULL \/ Len(w.trip[t].dives) = 0
    THEN 0
    ELSE w.dive[w.trip[t].dives[1]].when

trip_enddate(w, t) ==
    IF t = NULL \/ Len(w.trip[t].dives) = 0
    THEN 0
    ELSE dive_endtime(w, w.trip[t].dives[Len(w.trip[t].dives)])

\* comp_dives without the id as the last key
comp_dives_without_id(w, a, b) ==
    LET da == w.dive[a]
        db == w.dive[b]
    IN  IF da.when < db.when THEN -1
        ELSE IF da.when > db.when THEN 1
        ELSE IF da.divetrip # db.divetrip /\ db.divetrip = NULL THEN -1
        ELSE IF da.divetrip # db.divetrip /\ da.divetrip = NULL THEN 1
        ELSE IF da.divetrip # db.divetrip
                /\ trip_date(w, da.divetrip) < trip_date(w, db.divetrip) THEN -1
        ELSE IF da.divetrip # db.divetrip
                /\ trip_date(w, da.divetrip) > trip_date(w, db.divetrip) THEN 1
        ELSE 0

comp_dives(w, a, b) ==
    LET da == w.dive[a]
        db == w.dive[b]
    IN  IF da.when < db.when THEN -1
        ELSE IF da.when > db.when THEN 1
        ELSE IF da.divetrip # db.divetrip /\ db.divetrip = NULL THEN -1
        ELSE IF da.divetrip # db.divetrip /\ da.divetrip = NULL THEN 1
        ELSE IF da.divetrip # db.divetrip
                /\ trip_date(w, da.divetrip) < trip_date(w, db.divetrip) THEN -1
        ELSE IF da.divetrip # db.divetrip
                /\ trip_date(w, da.divetrip) > trip_date(w, db.divetrip) THEN 1
        ELSE IF a < b THEN -1
        ELSE IF a > b THEN 1
        ELSE 0

comp_trips(w, a, b) ==
    IF Len(w.trip[a].dives) <= 0
    THEN (IF Len(w.trip[b].dives) <= 0 THEN 0 ELSE -1)
    ELSE IF Len(w.trip[b].dives) <= 0 THEN 1
    ELSE comp_dives(w, w.trip[a].dives[1], w.trip[b].dives[1])

dive_less_than(w, a, b) == comp_dives(w, a, b) < 0

trip_less_than(w, a, b) == comp_trips(w, a, b) < 0

-----------------------------------------------------------------------------
(* Ordered tables (the MAKE_* macros) *)

RECURSIVE dive_scan_insertion_index(_, _, _, _)
dive_scan_insertion_index(w, tab, item, i) ==
    IF i >= Len(tab) THEN Len(tab)
    ELSE IF dive_less_than(w, item, tab[i + 1]) THEN i
    ELSE dive_scan_insertion_index(w, tab, item, i + 1)

\* an insertion index that ignores the order: the end of the table
dive_table_append_index(w, tab, item) == Len(tab)

dive_table_get_insertion_index(w, tab, item) ==
    dive_scan_insertion_index(w, tab, item, 0)

RECURSIVE trip_scan_insertion_index(_, _, _, _)
trip_scan_insertion_index(w, tab, item, i) ==
    IF i >= Len(tab) THEN Len(tab)
    ELSE IF trip_less_than(w, item, tab[i + 1]) THEN i
    ELSE trip_scan_insertion_index(w, tab, item, i + 1)

trip_table_get_insertion_index(w, tab, item) ==
    trip_scan_insertion_index(w, tab, item, 0)

\* add_to_dive_table / add_to_trip_table, for 0 <= idx <= nr
add_to_table(tab, idx, item) ==
    SubSeq(tab, 1, idx) \o <<item>> \o SubSeq(tab, idx + 1, Len(tab))

\* remove_from_dive_table / remove_from_trip_table
remove_from_table(tab, idx) ==
    SubSeq(tab, 1, idx) \o SubSeq(tab, idx + 2, Len(tab))

RECURSIVE scan_idx_in_table(_, _, _)
scan_idx_in_table(tab, item, i) ==
    IF i >= Len(tab) THEN -1
    ELSE IF tab[i + 1] = item THEN i
    ELSE scan_idx_in_table(tab, item, i + 1)

\* get_idx_in_dive_table / get_idx_in_trip_table: pointer equality
get_idx_in_table(tab, item) == scan_idx_in_table(tab, item, 0)

\* qsort with comp_dives: comp_dives orders dives with distinct ids totally,
\* so the result is the one ordered arrangement of the table
RECURSIVE sort_dive_seq(_, _, _)
sort_dive_seq(w, tab, done) ==
    IF tab = <<>> THEN done
    ELSE LET x == Head(tab)
             k == Cardinality({j \in 1..Len(done) : comp_dives(w, done[j], x) <= 0})
         IN  sort_dive_seq(w, Tail(tab), add_to_table(done, k, x))

sort_dive_table(w, tab) == sort_dive_seq(w, tab, <<>>)

\* qsort with comp_trips; trips that compare equal (two empty trips) keep
\* their relative order here
RECURSIVE sort_trip_seq(_, _, _)
sort_trip_seq(w, tab, done) ==
    IF tab = <<>> THEN done
    ELSE LET x == Head(tab)
             k == Cardinality({j \in 1..Len(done) : comp_trips(w, done[j], x) <= 0})
         IN  sort_trip_seq(w, Tail(tab), add_to_table(done, k, x))

sort_trip_table(w, tab) == sort_trip_seq(w, tab, <<>>)

remove_dive(tab, d) ==
    LET idx == get_idx_in_table(tab, d)
    IN  IF idx >= 0 THEN remove_from_table(tab, idx) ELSE tab

-----------------------------------------------------------------------------
(* Trip registry *)

\* the world after unregister_dive_from_trip(dive); the trip it returns is
\* the divetrip of the dive before the call
unregister_dive_from_trip(w, d) ==
    LET t == w.dive[d].divetrip
    IN  IF t = NULL THEN w
        ELSE [w EXCEPT !.trip[t].dives = remove_dive(@, d),
                       !.dive[d].divetrip = NULL]

\* unregister_trip on the global trip table (assert(!trip->dives.nr) is the
\* caller's obligation)
unregister_trip(w, t) ==
    LET idx == get_idx_in_table(w.trip_table, t)
    IN  IF idx >= 0
        THEN [w EXCEPT !.trip_table = remove_from_table(@, idx)]
        ELSE w

delete_trip(w, t) == free_trip(unregister_trip(w, t), t)

\* a remove_dive_from_trip that leaves the emptied trip where it is
remove_dive_from_trip_keeping_trip(w, d) == unregister_dive_from_trip(w, d)

remove_dive_from_trip(w, d) ==
    LET t == w.dive[d].divetrip
        w1 == unregister_dive_from_trip(w, d)
    IN  IF t # NULL /\ Len(w1.trip[t].dives) = 0
        THEN delete_trip(w1, t)
        ELSE w1

\* an add_dive_to_trip that does not look whether the dive is in the trip
add_dive_to_trip_again(w, d, t) ==
    [w EXCEPT !.trip[t].dives =
                  add_to_table(@, dive_table_get_insertion_index(w, @, d), d),
              !.dive[d].divetrip = t]

add_dive_to_trip(w, d, t) ==
    IF w.dive[d].divetrip = t THEN w
    ELSE LET idx == dive_table_get_insertion_index(w, w.trip[t].dives, d)
         IN  [w EXCEPT !.trip[t].dives = add_to_table(@, idx, d),
                       !.dive[d].divetrip = t]

\* insert_trip into a given trip table; returns the table
insert_trip(w, t, tab) ==
    add_to_table(tab, trip_table_get_insertion_index(w, tab, t), t)

create_and_hookup_trip_from_dive(w, d) ==
    LET w1 == create_trip_from_dive(alloc_trip(w), d)
        t == Len(w1.trip)
        w2 == add_dive_to_trip(w1, d, t)
    IN  [w2 EXCEPT !.trip_table = insert_trip(w2, t, @)]

-----------------------------------------------------------------------------
(* Autogrouping *)

\* a second loop that ends the range right after its first dive
autogroup_range_end_first(w, table, to, lastdive) == to

\* second loop of get_dives_to_autogroup: the end "to" of the range
RECURSIVE autogroup_range_end(_, _, _, _)
autogroup_range_end(w, table, to, lastdive) ==
    IF to >= Len(table) THEN to
    ELSE LET d == table[to + 1]
         IN  IF \/ w.dive[d].divetrip # NULL
                \/ w.dive[d].notrip
                \/ w.dive[d].when >= w.dive[lastdive].when + TRIP_THRESHOLD
             THEN to
             ELSE autogroup_range_end(w, table, to + 1, d)

\* get_dives_to_autogroup(table, start, &from, &to, &allocated): the trip
\* (NULL when nothing is left to group), the range, and the world, which
\* holds the newly allocated trip when allocated is set
RECURSIVE get_dives_to_autogroup(_, _, _, _)
get_dives_to_autogroup(w, table, i, lastdive) ==
    IF i >= Len(table)
    THEN [w |-> w, trip |-> NULL, from |-> 0, to |-> 0, allocated |-> FALSE]
    ELSE LET d == table[i + 1]
         IN  IF w.dive[d].divetrip # NULL
             THEN get_dives_to_autogroup(w, table, i + 1, d)
             ELSE IF w.dive[d].notrip
             THEN get_dives_to_autogroup(w, table, i + 1, NULL)
             ELSE LET alloc == \/ lastdive = NULL
                               \/ w.dive[d].when >=
                                    w.dive[lastdive].when + TRIP_THRESHOLD
                      w1 == IF alloc
                            THEN LET wa == create_trip_from_dive(w, d)
                                 IN  [wa EXCEPT !.trip[Len(wa.trip)].autogen = TRUE]
                            ELSE w
                      t == IF alloc THEN Len(w1.trip)
                           ELSE w.dive[lastdive].divetrip
                  IN  [w |-> w1, trip |-> t, from |-> i,
                       to |-> autogroup_range_end(w, table, i + 1, d),
                       allocated |-> alloc]

RECURSIVE add_dives_to_trip(_, _, _, _, _)
add_dives_to_trip(w, table, j, to, t) ==
    IF j >= to THEN w
    ELSE add_dives_to_trip(add_dive_to_trip(w, table[j + 1], t), table, j + 1, to, t)

\* the for loop of autogroup_dives
RECURSIVE autogroup_loop(_, _, _, _)
autogroup_loop(w, table, tt, i) ==
    LET r == get_dives_to_autogroup(w, table, i, NULL)
    IN  IF r.trip = NULL THEN [w |-> w, tt |-> tt]
        ELSE LET w2 == add_dives_to_trip(r.w, table, r.from, r.to, r.trip)
                 tt2 == IF r.allocated THEN insert_trip(w2, r.trip, tt) ELSE tt
             IN  autogroup_loop(w2, table, tt2, r.to)

\* get_trip_for_new_dive(new_dive, &allocated): the trip of the first dive
\* of the global table that has a trip and starts at most TRIP_THRESHOLD
\* away from the new dive, else a new autogen trip, which the world holds
get_trip_for_new_dive(w, new_dive) ==
    LET nr == Len(w.dive_table)
        scan[i \in 0..nr] ==
            IF i >= nr THEN NULL
            ELSE LET d == w.dive_table[i + 1]
                 IN  IF w.dive[d].when >= w.dive[new_dive].when + TRIP_THRESHOLD
                     THEN NULL
                     ELSE IF /\ w.dive[d].when + TRIP_THRESHOLD >=
                                    w.dive[new_dive].when
                             /\ w.dive[d].divetrip # NULL
                     THEN w.dive[d].divetrip
                     ELSE scan[i + 1]
        wa == create_trip_from_dive(w, new_dive)
    IN  IF scan[0] # NULL
        THEN [w |-> w, trip |-> scan[0], allocated |-> FALSE]
        ELSE [w |-> [wa EXCEPT !.trip[Len(wa.trip)].autogen = TRUE],
              trip |-> Len(wa.trip), allocated |-> TRUE]

\* an autogroup_dives that does not look at the autogroup toggle
autogroup_dives_always(w, table, tt) ==
    LET r == autogroup_loop(w, table, tt, 0)
    IN  [w |-> r.w, tt |-> sort_trip_table(r.w, r.tt)]

\* autogroup_dives(table, trip_table): the world and the trip table passed in
autogroup_dives(w, table, tt) ==
    IF ~w.autogroup THEN [w |-> w, tt |-> tt]
    ELSE LET r == autogroup_loop(w, table, tt, 0)
         IN  [w |-> r.w, tt |-> sort_trip_table(r.w, r.tt)]

-----------------------------------------------------------------------------
(* Selection *)

\* get_dive(nr) of dive.h: NULL outside the table
get_dive(w, idx) ==
    IF idx >= Len(w.dive_table) \/ idx < 0 THEN NULL ELSE w.dive_table[idx + 1]

\* get_divenr: position of the dive with the same id, -1 if none
get_divenr(w, d) ==
    IF d = NULL THEN -1 ELSE get_idx_in_table(w.dive_table, d)

select_dive(w, d) ==
    IF d = NULL THEN w
    ELSE LET w1 == IF ~w.dive[d].selected
                   THEN [w EXCEPT !.dive[d].selected = TRUE,
                                  !.amount_selected = @ + 1]
                   ELSE w
         IN  [w1 EXCEPT !.current_dive = d]

\* nearest selected dive before idx (scanning down), NULL if none
RECURSIVE selected_before(_, _)
selected_before(w, selected_dive) ==
    IF selected_dive < 0 THEN NULL
    ELSE LET d == get_dive(w, selected_dive)
         IN  IF d # NULL /\ w.dive[d].selected THEN d
             ELSE selected_before(w, selected_dive - 1)

\* nearest selected dive after idx (scanning up), NULL if none
RECURSIVE selected_after(_, _)
selected_after(w, selected_dive) ==
    IF selected_dive >= Len(w.dive_table) THEN NULL
    ELSE LET d == get_dive(w, selected_dive)
         IN  IF d # NULL /\ w.dive[d].selected THEN d
             ELSE selected_after(w, selected_dive + 1)

\* a deselect_dive that does not look for another selected dive
deselect_dive_to_null(w, d) ==
    IF d # NULL /\ w.dive[d].selected
    THEN [w EXCEPT !.dive[d].selected = FALSE,
                   !.amount_selected = IF @ # 0 THEN @ - 1 ELSE @,
                   !.current_dive = NULL]
    ELSE w

deselect_dive(w, d) ==
    IF d # NULL /\ w.dive[d].selected
    THEN LET w1 == [w EXCEPT !.dive[d].selected = FALSE,
                             !.amount_selected = IF @ # 0 THEN @ - 1 ELSE @]
             idx == get_divenr(w1, d)
             before == selected_before(w1, idx - 1)
             after == selected_after(w1, idx + 1)
         IN  IF w1.current_dive = d /\ w1.amount_selected # 0 /\ before # NULL
             THEN [w1 EXCEPT !.current_dive = before]
             ELSE IF w1.current_dive = d /\ w1.amount_selected # 0 /\ after # NULL
             THEN [w1 EXCEPT !.current_dive = after]
             ELSE [w1 EXCEPT !.current_dive = NULL]
    ELSE w

RECURSIVE deselect_trip_loop(_, _, _)
deselect_trip_loop(w, t, i) ==
    IF i >= Len(w.trip[t].dives) THEN w
    ELSE deselect_trip_loop(deselect_dive(w, w.trip[t].dives[i + 1]), t, i + 1)

deselect_dives_in_trip(w, t) ==
    IF t = NULL THEN w ELSE deselect_trip_loop(w, t, 0)

RECURSIVE select_trip_loop(_, _, _)
select_trip_loop(w, t, i) ==
    IF i >= Len(w.trip[t].dives) THEN w
    ELSE LET d == w.trip[t].dives[i + 1]
         IN  select_trip_loop(IF ~w.dive[d].hidden_by_filter
                              THEN select_dive(w, d) ELSE w, t, i + 1)

select_dives_in_trip(w, t) ==
    IF t = NULL THEN w ELSE select_trip_loop(w, t, 0)

filter_dive(w, d, shown) ==
    IF d = NULL THEN w
    ELSE LET w1 == [w EXCEPT !.dive[d].hidden_by_filter = ~shown]
         IN  IF ~shown /\ w1.dive[d].selected THEN deselect_dive(w1, d) ELSE w1

-----------------------------------------------------------------------------
(* Adding and deleting dives of the global table *)

\* delete_dive_from_table on the global dive table
delete_dive_from_table(w, idx) ==
    LET w1 == free_dive(w, w.dive_table[idx + 1])
    IN  [w1 EXCEPT !.dive_table = remove_from_table(@, idx)]

\* unregister_dive without its bookkeeping of the selection counter
unregister_dive_keeping_count(w, idx) ==
    LET d == get_dive(w, idx)
    IN  IF d = NULL THEN w
        ELSE [w EXCEPT !.dive_table = remove_from_table(@, idx),
                       !.dive[d].selected = FALSE]

unregister_dive(w, idx) ==
    LET d == get_dive(w, idx)
    IN  IF d = NULL THEN w
        ELSE [w EXCEPT !.dive_table = remove_from_table(@, idx),
                       !.amount_selected =
                           IF w.dive[d].selected THEN @ - 1 ELSE @,
                       !.dive[d].selected = FALSE]

delete_single_dive(w, idx) ==
    LET d == get_dive(w, idx)
    IN  IF d = NULL THEN w
        ELSE LET w1 == IF w.dive[d].selected THEN deselect_dive(w, d) ELSE w
                 w2 == remove_dive_from_trip(w1, d)
             IN  delete_dive_from_table(w2, idx)

\* add_single_dive(idx, dive), for 0 <= idx <= dive_table.nr
add_single_dive(w, idx, d) ==
    [w EXCEPT !.dive_table = add_to_table(@, idx, d),
              !.amount_selected =
                  IF w.dive[d].selected THEN @ + 1 ELSE @]

\* clear_dive_file_data: the dives go one by one from the front of the
\* table; the dive sites, displayed_dive and the file version are not part
\* of the model
clear_dive_file_data(w) ==
    LET deleted[k \in 0..Len(w.dive_table)] ==
            IF k = 0 THEN w ELSE delete_single_dive(deleted[k - 1], 0)
    IN  [deleted[Len(w.dive_table)] EXCEPT !.trip_table = <<>>]

\* add_single_dive(idx, dive) for idx < 0.  add_to_dive_table has no case
\* for a negative index: its loop starts at dives[idx], in front of the
\* array.  It stores the dive at dives[idx], moves every word from there on
\* one place up, so that the word that was at dives[-1] (tmp, read out of
\* bounds: any pointer value) lands in dives[0], and the entries of the
\* table move up by one.
add_single_dive_negative_idx(w, idx, d, tmp) ==
    [w EXCEPT !.dive_table = <<tmp>> \o @,
              !.amount_selected =
                  IF w.dive[d].selected THEN @ + 1 ELSE @]

-----------------------------------------------------------------------------
(* Seeding the decompression state: init_decompression.  The tissue model *)
(* (clear_deco, add_segment, add_dive_to_deco, tissue_tolerance_calc)     *)
(* lives in deco.c; the model keeps the walk over the dive table and the  *)
(* value returned.                                                        *)

\* lines 555-560: i moves up past the dives that do not start after dive
RECURSIVE deco_correct_up(_, _, _)
deco_correct_up(w, d, i) ==
    IF i < Len(w.dive_table) - 1
    THEN LET pdive == get_dive(w, i)
         IN  IF pdive = NULL \/ w.dive[pdive].when > w.dive[d].when THEN i
             ELSE deco_correct_up(w, d, i + 1)
    ELSE i

\* lines 562-567: i moves down to the first dive that does not start before
\* dive
RECURSIVE deco_correct_down(_, _, _)
deco_correct_down(w, d, i) ==
    IF i > 0
    THEN LET pdive == get_dive(w, i - 1)
         IN  IF pdive = NULL \/ w.dive[pdive].when < w.dive[d].when THEN i
             ELSE deco_correct_down(w, d, i - 1)
    ELSE i

\* lines 573-597, while (i--): the value of i when the loop is left
RECURSIVE deco_walk_back(_, _, _, _, _)
deco_walk_back(w, d, divenr, i, last_starttime) ==
    IF i = 0 THEN -1
    ELSE LET j == IF i - 1 = divenr /\ i - 1 > 0 THEN i - 2 ELSE i - 1
             pdive == get_dive(w, j)
         IN  IF /\ w.dive[d].divetrip # NULL
                /\ w.dive[pdive].divetrip # w.dive[d].divetrip
             THEN deco_walk_back(w, d, divenr, j, last_starttime)
             ELSE IF \/ pdive = NULL
                     \/ w.dive[pdive].when >= w.dive[d].when
                     \/ dive_endtime(w, pdive) + FortyEightHours < last_starttime
             THEN j
             ELSE deco_walk_back(w, d, divenr, j, w.dive[pdive].when)

\* a last interval that forgets the dummy value of 48 hours
deco_last_interval_without_dummy(w, d, deco_init, last_endtime) ==
    w.dive[d].when - last_endtime

\* lines 657-671: the surface interval before dive, 48 hours when no dive
\* went before it
deco_last_interval(w, d, deco_init, last_endtime) ==
    IF ~deco_init THEN FortyEightHours
    ELSE w.dive[d].when - last_endtime

\* lines 599-655, while (++i < dive_table.nr), and the end of the function:
\* the value returned
RECURSIVE deco_walk_forward(_, _, _, _, _, _)
deco_walk_forward(w, d, divenr, i, deco_init, last_endtime) ==
    IF i + 1 >= Len(w.dive_table)
    THEN deco_last_interval(w, d, deco_init, last_endtime)
    ELSE LET pdive == get_dive(w, i + 1)
         IN  IF /\ w.dive[d].divetrip # NULL
                /\ w.dive[d].divetrip # w.dive[pdive].divetrip
             THEN deco_walk_forward(w, d, divenr, i + 1, deco_init, last_endtime)
             ELSE IF w.dive[pdive].when >= w.dive[d].when
             THEN deco_last_interval(w, d, deco_init, last_endtime)
             ELSE IF i + 1 = divenr
             THEN deco_walk_forward(w, d, divenr, i + 1, deco_init, last_endtime)
             ELSE IF deco_init /\ w.dive[pdive].when - last_endtime < 0
             THEN w.dive[pdive].when - last_endtime
             ELSE deco_walk_forward(w, d, divenr, i + 1, TRUE,
                                    dive_endtime(w, pdive))

\* init_decompression(ds, dive): the value returned
init_decompression(w, d) ==
    IF d = NULL THEN 0
    ELSE LET divenr == get_divenr(w, d)
             start == IF divenr >= 0 THEN divenr ELSE Len(w.dive_table)
             i == deco_correct_down(w, d, deco_correct_up(w, d, start))
         IN  deco_walk_forward(
                 w, d, divenr,
                 deco_walk_back(w, d, divenr, i, w.dive[d].when),
                 FALSE, 0)

\* init_decompression(ds, dive) for a dive that is not NULL: the calls of
\* the tissue model it makes, in their order.  st[k] is <<deco_init,
\* last_endtime, calls so far, how the loop went on>> after the pass of the
\* loop of lines 599-655 for index k: "loop" (it goes on), "break" or
\* "return"
init_decompression_calls(w, d) ==
    LET divenr == get_divenr(w, d)
        start == IF divenr >= 0 THEN divenr ELSE Len(w.dive_table)
        i == deco_walk_back(w, d, divenr,
                            deco_correct_down(w, d, deco_correct_up(w, d, start)),
                            w.dive[d].when)
        nr == Len(w.dive_table)
        st[k \in i..(nr - 1)] ==
            IF k = i THEN <<FALSE, 0, <<>>, "loop">>
            ELSE LET p == st[k - 1]
                     pdive == get_dive(w, k)
                 IN  IF p[4] # "loop" THEN p
                     ELSE IF /\ w.dive[d].divetrip # NULL
                             /\ w.dive[d].divetrip # w.dive[pdive].divetrip
                     THEN p
                     ELSE IF w.dive[pdive].when >= w.dive[d].when
                     THEN <<p[1], p[2], p[3], "break">>
                     ELSE IF k = divenr THEN p
                     ELSE IF p[1] /\ w.dive[pdive].when - p[2] < 0
                     THEN <<p[1], p[2], p[3], "return">>
                     ELSE <<TRUE, dive_endtime(w, pdive),
                            p[3] \o <<IF ~p[1] THEN "clear_deco" ELSE "add_segment",
                                      "add_dive_to_deco", "clear_vpmb_state">>,
                            "loop">>
        end == st[nr - 1]
    IN  IF end[4] = "return" THEN end[3]
        ELSE IF ~end[1] THEN end[3] \o <<"clear_deco", "tissue_tolerance_calc">>
        ELSE IF w.dive[d].when - end[2] < 0 THEN end[3]
        ELSE end[3] \o <<"add_segment", "tissue_tolerance_calc">>

-----------------------------------------------------------------------------
(* Looking dives up by time *)

\* get_dive_id_closest_to with the comparison of the two distances turned
\* round
get_dive_id_farther_of_two(w, when) ==
    LET nr == Len(w.dive_table)
        when_at(k) == w.dive[w.dive_table[k + 1]].when
        scan[i \in 0..nr] ==
            IF i < nr /\ when_at(i) <= when THEN scan[i + 1] ELSE i
        i == scan[0]
    IN  IF nr = 0 THEN 0
        ELSE IF nr = 1 THEN w.dive_table[1]
        ELSE IF i = nr THEN w.dive_table[i]
        ELSE IF i = 0 THEN w.dive_table[1]
        ELSE IF when - when_at(i - 1) > when_at(i) - when THEN w.dive_table[i]
        ELSE w.dive_table[i + 1]

\* get_dive_id_closest_to with the dives of the two edge cases exchanged
get_dive_id_closest_edges_swapped(w, when) ==
    LET nr == Len(w.dive_table)
        when_at(k) == w.dive[w.dive_table[k + 1]].when
        scan[i \in 0..nr] ==
            IF i < nr /\ when_at(i) <= when THEN scan[i + 1] ELSE i
        i == scan[0]
    IN  IF nr = 0 THEN 0
        ELSE IF nr = 1 THEN w.dive_table[1]
        ELSE IF i = nr THEN w.dive_table[1]
        ELSE IF i = 0 THEN w.dive_table[nr]
        ELSE IF when - when_at(i - 1) < when_at(i) - when THEN w.dive_table[i]
        ELSE w.dive_table[i + 1]

\* get_dive_id_closest_to(when); scan is the for loop of lines 1865-1866
get_dive_id_closest_to(w, when) ==
    LET nr == Len(w.dive_table)
        when_at(k) == w.dive[w.dive_table[k + 1]].when
        scan[i \in 0..nr] ==
            IF i < nr /\ when_at(i) <= when THEN scan[i + 1] ELSE i
        i == scan[0]
    IN  IF nr = 0 THEN 0
        ELSE IF nr = 1 THEN w.dive_table[1]
        ELSE IF i = nr THEN w.dive_table[i]
        ELSE IF i = 0 THEN w.dive_table[1]
        ELSE IF when - when_at(i - 1) < when_at(i) - when THEN w.dive_table[i]
        ELSE w.dive_table[i + 1]

\* get_surface_interval without the check for a dive that has not ended
get_surface_interval_unchecked(w, when) ==
    LET nr == Len(w.dive_table)
        scan[i \in -1..(nr - 1)] ==
            IF i >= 0 /\ ~(w.dive[w.dive_table[i + 1]].when < when)
            THEN scan[i - 1] ELSE i
        i == scan[nr - 1]
    IN  IF i < 0 THEN -1
        ELSE when - dive_endtime(w, w.dive_table[i + 1])

\* get_surface_interval(when); scan is the for loop of lines 1950-1953
get_surface_interval(w, when) ==
    LET nr == Len(w.dive_table)
        scan[i \in -1..(nr - 1)] ==
            IF i >= 0 /\ ~(w.dive[w.dive_table[i + 1]].when < when)
            THEN scan[i - 1] ELSE i
        i == scan[nr - 1]
        prev_end == dive_endtime(w, w.dive_table[i + 1])
    IN  IF i < 0 THEN -1
        ELSE IF prev_end > when THEN 0
        ELSE when - prev_end

\* find_next_visible_dive(when); first is the loop of lines 1973-1976,
\* older the loop of lines 1978-1981 and newer the loop of lines 1983-1986
find_next_visible_dive(w, when) ==
    LET nr == Len(w.dive_table)
        first[i \in 0..nr] ==
            IF i < nr /\ ~(when <= w.dive[get_dive(w, i)].when)
            THEN first[i + 1] ELSE i
        older[j \in -1..(nr - 1)] ==
            IF ~(j > 0) THEN NULL
            ELSE IF ~w.dive[get_dive(w, j)].hidden_by_filter THEN get_dive(w, j)
            ELSE older[j - 1]
        newer[j \in 0..nr] ==
            IF ~(j < nr) THEN NULL
            ELSE IF ~w.dive[get_dive(w, j)].hidden_by_filter THEN get_dive(w, j)
            ELSE newer[j + 1]
    IN  IF nr = 0 THEN NULL
        ELSE IF older[first[0] - 1] # NULL THEN older[first[0] - 1]
        ELSE newer[first[0]]

-----------------------------------------------------------------------------

(* The gas of a dive: get_dive_gas.  A cylinder is <<o2, he, used, none>>: *)
(* what get_o2 and get_he return for its mix (permille), and what          *)
(* is_cylinder_used and cylinder_none return for it.                       *)

\* one pass through the loop body (lines 113-131); s is <<maxo2, maxhe,
\* mino2>>
gas_loop_body(s, cyl) ==
    LET o2 == cyl[1]
        he == cyl[2]
        maxo2 == IF o2 > s[1] THEN o2 ELSE s[1]
    IN  IF ~cyl[3] THEN s
        ELSE IF cyl[4] THEN s
        ELSE IF he > s[2] THEN <<maxo2, he, o2>>
        ELSE IF he < s[2] THEN <<maxo2, s[2], s[3]>>
        ELSE IF o2 <= maxo2 THEN <<maxo2, s[2], s[3]>>
        ELSE <<maxo2, he, o2>>

\* get_dive_gas(dive, &o2, &he, &o2max); the result is <<o2, he, o2max>>
get_dive_gas(w, d) ==
    LET cylinder == w.dive[d].cylinder
        loop[i \in 0..Len(cylinder)] ==
            IF i = 0 THEN <<-1, -1, 1000>>
            ELSE gas_loop_body(loop[i - 1], cylinder[i])
        s == loop[Len(cylinder)]
    IN  IF \/ s[2] = 0 /\ s[1] = O2_IN_AIR /\ s[3] = s[1]
           \/ s[1] = -1 /\ s[2] = -1 /\ s[3] = 1000
        THEN <<0, s[2], 0>>
        ELSE <<s[3], s[2], s[1]>>

-----------------------------------------------------------------------------

(* CNS: the row of cns_table that calculate_cns_dive uses for a segment *)

\* cns_table: po2 (mbar), maximum single exposure (seconds), single slope;
\* row r of the C table is cns_table[r + 1]
cns_table ==
    <<<<1600, 45 * 60, 456>>, <<1550, 83 * 60, 456>>, <<1500, 120 * 60, 444>>,
      <<1450, 135 * 60, 180>>, <<1400, 150 * 60, 180>>, <<1350, 165 * 60, 180>>,
      <<1300, 180 * 60, 180>>, <<1250, 195 * 60, 180>>, <<1200, 210 * 60, 180>>,
      <<1100, 240 * 60, 180>>, <<1000, 300 * 60, 360>>, <<900, 360 * 60, 360>>,
      <<800, 450 * 60, 540>>, <<700, 570 * 60, 720>>, <<600, 720 * 60, 900>>,
      <<500, 870 * 60, 900>>>>

\* the body of the loop of calculate_cns_dive for a segment with the given
\* initial and final po2 (lines 272-283): the row j of cns_table that is
\* read at line 283, -1 when the segment is skipped at line 276
cns_segment_row(po2i, po2f) ==
    LET mean == (po2i + po2f) \div 2
        rows == Len(cns_table)
        scan[j \in 1..rows] ==
            IF j < rows /\ ~(mean > cns_table[j + 1][1]) THEN scan[j + 1] ELSE j
    IN  IF mean <= 500 THEN -1 ELSE scan[1]

\* the divisor of line 283 for such a segment, the interpolated maximum
\* exposure time in seconds, times ten (the table holds the slopes times
\* ten; the product is an integer, the divisor a double of the same sign);
\* 0 when the segment is skipped
cns_segment_exposure(po2i, po2f) ==
    LET mean == (po2i + po2f) \div 2
        j == cns_segment_row(po2i, po2f)
    IN  IF j < 0 THEN 0
        ELSE 10 * cns_table[j + 1][2]
                 - (mean - cns_table[j + 1][1]) * cns_table[j + 1][3]

\* The history walk of calculate_cns (lines 305-395) for a dive whose cns is
\* 0: the dives whose calculate_cns_dive is added to the sum, in the order
\* of the additions.  back is the loop of lines 323-347 (the value of i
\* when it is left), fwd[k] the dives added and how the loop of lines
\* 349-393 went on ("loop" or "break") after its pass for index k.
\* 12 * 60 * 60 seconds are half a day: with times in days,
\* endtime + 12 hours < last_starttime is 2 * endtime + 1 < 2 * last_starttime.
calculate_cns_dives(w, d) ==
    LET divenr == get_divenr(w, d)
        nr == Len(w.dive_table)
        start == IF divenr >= 0 THEN divenr ELSE nr
        back[i \in 0..nr, last_starttime \in Int] ==
            IF i = 0 THEN -1
            ELSE LET j == IF i - 1 = divenr /\ i - 1 > 0 THEN i - 2 ELSE i - 1
                     pdive == get_dive(w, j)
                 IN  IF /\ w.dive[d].divetrip # NULL
                        /\ w.dive[pdive].divetrip # w.dive[d].divetrip
                     THEN back[j, last_starttime]
                     ELSE IF \/ pdive = NULL
                             \/ w.dive[pdive].when >= w.dive[d].when
                             \/ 2 * dive_endtime(w, pdive) + 1 < 2 * last_starttime
                     THEN j
                     ELSE back[j, w.dive[pdive].when]
        i == back[deco_correct_down(w, d, deco_correct_up(w, d, start)),
                  w.dive[d].when]
        fwd[k \in i..(nr - 1)] ==
            IF k = i THEN <<<<>>, "loop">>
            ELSE LET p == fwd[k - 1]
                     pdive == get_dive(w, k)
                 IN  IF p[2] # "loop" THEN p
                     ELSE IF /\ w.dive[d].divetrip # NULL
                             /\ w.dive[d].divetrip # w.dive[pdive].divetrip
                     THEN p
                     ELSE IF w.dive[pdive].when >= w.dive[d].when
                     THEN <<p[1], "break">>
                     ELSE IF k = divenr THEN p
                     ELSE <<Append(p[1], pdive), "loop">>
    IN  Append(fwd[nr - 1][1], d)

\* a calculate_cns without the shortcut for a dive that has a value
calculate_cns_again(w, d, value) ==
    [w |-> [w EXCEPT !.dive[d].cns = value], cns |-> value,
     added |-> calculate_cns_dives(w, d)]

\* calculate_cns(dive): the world, the value returned and the dives whose
\* calculate_cns_dive was added.  value is lrint(cns) of line 413: it
\* follows from the samples of these dives, which the model leaves out.
calculate_cns(w, d, value) ==
    IF w.dive[d].cns # 0
    THEN [w |-> w, cns |-> w.dive[d].cns, added |-> <<>>]
    ELSE [w |-> [w EXCEPT !.dive[d].cns = value], cns |-> value,
          added |-> calculate_cns_dives(w, d)]

-----------------------------------------------------------------------------

(* Loading *)

process_loaded_dives(w) ==
    LET w1 == [w EXCEPT !.dive_table = sort_dive_table(w, @)]
        w2 == [w1 EXCEPT !.trip_table = sort_trip_table(w1, @)]
        r == autogroup_dives(w2, w2.dive_table, w2.trip_table)
    IN  [r.w EXCEPT !.trip_table = r.tt]

-----------------------------------------------------------------------------
(* Merging dives.  try_to_merge() lives in dive.c: two dives are merged    *)
(* when they are recordings of the same dive, which the model reads off a  *)
(* signature (sig, 0: like no other dive).  The merged dive is a newly     *)
(* allocated dive that takes its data from the preferred dive.             *)

\* try_to_merge(a, b, prefer_b): the world, and the merged dive or NULL
try_to_merge(w, a, b, prefer_b) ==
    IF w.dive[a].sig = 0 \/ w.dive[a].sig # w.dive[b].sig
    THEN [w |-> w, merged |-> NULL]
    ELSE LET p == IF prefer_b THEN w.dive[b] ELSE w.dive[a]
             o == IF prefer_b THEN w.dive[a] ELSE w.dive[b]
             m == NewDive(p.when, p.duration, p.notrip,
                          IF p.number # 0 THEN p.number ELSE o.number, p.sig)
         IN  [w |-> [w EXCEPT !.dive = Append(@, m)], merged |-> Len(w.dive) + 1]

\* the for loop of merge_imported_dives on the import table
RECURSIVE merge_imported_loop(_, _, _)
merge_imported_loop(w, table, i) ==
    IF i >= Len(table) THEN [w |-> w, table |-> table]
    ELSE LET prev == table[i]
             d == table[i + 1]
         IN  IF /\ w.dive[prev].duration # 0
                /\ w.dive[d].duration # 0
                /\ dive_endtime(w, prev) < w.dive[d].when
             THEN merge_imported_loop(w, table, i + 1)
             ELSE LET r == try_to_merge(w, prev, d, FALSE)
                  IN  IF r.merged = NULL
                      THEN merge_imported_loop(w, table, i + 1)
                      ELSE merge_imported_loop(
                               free_dive(free_dive(r.w, prev), d),
                               remove_from_table([table EXCEPT ![i] = r.merged], i),
                               i)

merge_imported_dives(w, table) == merge_imported_loop(w, table, 1)

\* insert_dive(table, d): the table
insert_dive(w, table, d) ==
    add_to_table(table, dive_table_get_insertion_index(w, table, d), d)

\* try_to_merge_into(dive_to_add, idx, table, ...): merged says whether it
\* succeeded; o carries the world and the output tables
\* a try_to_merge_into that takes the old dive out of the global dive table
\* on the spot instead of recording it in dives_to_remove
try_to_merge_into_replacing(o, r, old_dive) ==
    IF r.merged = NULL THEN [o EXCEPT !.merged = FALSE]
    ELSE [o EXCEPT !.w = [r.w EXCEPT !.dive[r.merged].divetrip =
                                         r.w.dive[old_dive].divetrip,
                                     !.dive_table =
                                         SelectSeq(@, LAMBDA x : x # old_dive)],
                   !.dives_to_add = insert_dive(r.w, @, r.merged),
                   !.merged = TRUE]

\* try_to_merge_into that puts the old dive on both output tables
try_to_merge_into_adding_old(o, r, old_dive) ==
    IF r.merged = NULL THEN [o EXCEPT !.merged = FALSE]
    ELSE [o EXCEPT !.w = [r.w EXCEPT !.dive[r.merged].divetrip =
                                         r.w.dive[old_dive].divetrip],
                   !.dives_to_remove = insert_dive(r.w, @, old_dive),
                   !.dives_to_add = insert_dive(r.w, @, old_dive),
                   !.merged = TRUE]

try_to_merge_into_result(o, r, old_dive) ==
    IF r.merged = NULL THEN [o EXCEPT !.merged = FALSE]
    ELSE [o EXCEPT !.w = [r.w EXCEPT !.dive[r.merged].divetrip =
                                         r.w.dive[old_dive].divetrip],
                   !.dives_to_remove = insert_dive(r.w, @, old_dive),
                   !.dives_to_add = insert_dive(r.w, @, r.merged),
                   !.merged = TRUE]

try_to_merge_into(o, dive_to_add, idx, table, prefer_imported) ==
    try_to_merge_into_result(
        o, try_to_merge(o.w, table[idx + 1], dive_to_add, prefer_imported),
        table[idx + 1])

trips_overlap(w, t1, t2) ==
    IF Len(w.trip[t1].dives) = 0 \/ Len(w.trip[t2].dives) = 0 THEN FALSE
    ELSE IF trip_date(w, t1) < trip_date(w, t2)
    THEN trip_enddate(w, t1) >= trip_date(w, t2)
    ELSE trip_enddate(w, t2) >= trip_date(w, t1)

dive_is_after_last(w, d) ==
    IF Len(w.dive_table) = 0 THEN TRUE
    ELSE dive_less_than(w, w.dive_table[Len(w.dive_table)], d)

\* advance j to the insertion point of dive_to_add in dives_to
RECURSIVE merge_find_insertion_point(_, _, _, _)
merge_find_insertion_point(w, dives_to, d, j) ==
    IF j < Len(dives_to) /\ dive_less_than(w, dives_to[j + 1], d)
    THEN merge_find_insertion_point(w, dives_to, d, j + 1)
    ELSE j

\* The for loop of merge_dive_tables (lines 1518-1562), one definition per
\* stretch of its body.  o holds the world w, the import table
\* (delete_from), the output tables, *num_merged as start_renumbering_at and
\* the result sequence_changed (or-ed into the caller's); use_delete_from
\* tells whether delete_from is non-NULL; o.merged is the result of the last
\* try_to_merge_into.
RECURSIVE merge_dive_tables_loop(_, _, _, _, _, _, _, _, _)

\* lines 1558-1561, or the continue of lines 1551-1554
merge_dive_tables_add(o, dives_from, use_delete_from, dives_to, prefer_imported, t, i, j, last_merged_into) ==
    LET dive_to_add == dives_from[i + 1]
    IN  IF o.merged
        THEN merge_dive_tables_loop(
                 [o EXCEPT !.w = free_dive(@, dive_to_add),
                           !.start_renumbering_at = @ + 1],
                 dives_from, use_delete_from, dives_to, prefer_imported, t,
                 i + 1, j, j)
        ELSE merge_dive_tables_loop(
                 [o EXCEPT !.dives_to_add = insert_dive(o.w, @, dive_to_add),
                           !.sequence_changed =
                               @ \/ ~dive_is_after_last(o.w, dive_to_add),
                           !.w = [@ EXCEPT !.dive[dive_to_add].divetrip = t]],
                 dives_from, use_delete_from, dives_to, prefer_imported, t,
                 i + 1, j, last_merged_into)

\* the continue of lines 1538-1541, or lines 1547-1550
merge_dive_tables_next(o, dives_from, use_delete_from, dives_to, prefer_imported, t, i, j, last_merged_into) ==
    LET dive_to_add == dives_from[i + 1]
    IN  IF o.merged
        THEN merge_dive_tables_loop(
                 [o EXCEPT !.w = free_dive(@, dive_to_add),
                           !.start_renumbering_at = @ + 1],
                 dives_from, use_delete_from, dives_to, prefer_imported, t,
                 i + 1, j, j - 1)
        ELSE merge_dive_tables_add(
                 IF /\ j < Len(dives_to)
                    /\ j > last_merged_into
                    /\ dive_endtime(o.w, dive_to_add) > o.w.dive[dives_to[j + 1]].when
                 THEN try_to_merge_into(o, dive_to_add, j, dives_to, prefer_imported)
                 ELSE o,
                 dives_from, use_delete_from, dives_to, prefer_imported, t,
                 i, j, last_merged_into)

\* lines 1534-1537, with j at the insertion point
merge_dive_tables_prev(o, dives_from, use_delete_from, dives_to, prefer_imported, t, i, j, last_merged_into) ==
    LET dive_to_add == dives_from[i + 1]
    IN  merge_dive_tables_next(
            IF /\ j > 0
               /\ j - 1 > last_merged_into
               /\ dive_endtime(o.w, dives_to[j]) > o.w.dive[dive_to_add].when
            THEN try_to_merge_into(o, dive_to_add, j - 1, dives_to, prefer_imported)
            ELSE [o EXCEPT !.merged = FALSE],
            dives_from, use_delete_from, dives_to, prefer_imported, t,
            i, j, last_merged_into)

\* lines 1518-1526
merge_dive_tables_loop(o, dives_from, use_delete_from, dives_to, prefer_imported, t, i, j, last_merged_into) ==
    IF i >= Len(dives_from) THEN o
    ELSE merge_dive_tables_prev(
             IF use_delete_from
             THEN [o EXCEPT !.import_table = remove_dive(@, dives_from[i + 1])]
             ELSE o,
             dives_from, use_delete_from, dives_to, prefer_imported, t, i,
             merge_find_insertion_point(o.w, dives_to, dives_from[i + 1], j),
             last_merged_into)

\* merge_dive_tables; the caller empties dives_from (dives_from->nr = 0)
merge_dive_tables(o, dives_from, use_delete_from, dives_to, prefer_imported, t) ==
    merge_dive_tables_loop(o, dives_from, use_delete_from, dives_to,
                           prefer_imported, t, 0, 0, -1)

\* first trip of the global trip table that overlaps trip_import, or NULL
RECURSIVE find_overlapping_trip(_, _, _)
find_overlapping_trip(w, trip_import, i) ==
    IF i >= Len(w.trip_table) THEN NULL
    ELSE IF trips_overlap(w, trip_import, w.trip_table[i + 1])
    THEN w.trip_table[i + 1]
    ELSE find_overlapping_trip(w, trip_import, i + 1)

\* try_to_merge_trip: merged says whether the trip was merged (and freed)
try_to_merge_trip(o, trip_import, prefer_imported) ==
    LET trip_old == find_overlapping_trip(o.w, trip_import, 0)
    IN  IF trip_old = NULL THEN [o EXCEPT !.merged = FALSE]
        ELSE [merge_dive_tables(o, o.w.trip[trip_import].dives, TRUE,
                                o.w.trip[trip_old].dives, prefer_imported,
                                trip_old)
                EXCEPT !.w = free_trip([@ EXCEPT !.trip[trip_import].dives = <<>>],
                                       trip_import),
                       !.merged = TRUE]

-----------------------------------------------------------------------------
(* The import planner: process_imported_dives and add_imported_dives *)

Flags == {"IMPORT_PREFER_IMPORTED", "IMPORT_IS_DOWNLOADED",
          "IMPORT_MERGE_ALL_TRIPS", "IMPORT_ADD_TO_NEW_TRIP"}

\* the world together with the planner's tables and locals, as the helper
\* functions get them through their pointer arguments
Obj(w, pl) ==
    [w |-> w, import_table |-> pl.import_table,
     import_trip_table |-> pl.import_trip_table, flags |-> pl.flags,
     dives_to_add |-> pl.dives_to_add, dives_to_remove |-> pl.dives_to_remove,
     trips_to_add |-> pl.trips_to_add, i |-> pl.i,
     start_renumbering_at |-> pl.start_renumbering_at,
     preexisting |-> pl.preexisting, sequence_changed |-> pl.sequence_changed,
     new_dive_has_number |-> pl.new_dive_has_number, merged |-> FALSE]

PlanOf(o) ==
    [i |-> o.i, import_table |-> o.import_table,
     import_trip_table |-> o.import_trip_table, flags |-> o.flags,
     dives_to_add |-> o.dives_to_add, dives_to_remove |-> o.dives_to_remove,
     trips_to_add |-> o.trips_to_add,
     start_renumbering_at |-> o.start_renumbering_at,
     preexisting |-> o.preexisting, sequence_changed |-> o.sequence_changed,
     new_dive_has_number |-> o.new_dive_has_number]

\* the planner's state goes back to the variables
SetObj(o) ==
    /\ SetWorld(o.w)
    /\ plan' = PlanOf(o)

\* lines 1689-1714: the locals and the cleared output tables; iw holds the
\* world and the two import tables
process_imported_locals(iw, flags) ==
    [IdlePlan EXCEPT !.import_table = iw.import_table,
                     !.import_trip_table = iw.import_trip_table,
                     !.flags = flags,
                     !.new_dive_has_number =
                         \E d \in Range(iw.import_table) : iw.w.dive[d].number > 0]

\* line 1738: g is the state after autogroup_dives, table the import table
process_imported_grouped(g, table, iw, flags) ==
    [o |-> Obj(g.w, [process_imported_locals(iw, flags)
                        EXCEPT !.import_table = table,
                               !.import_trip_table = g.tt,
                               !.preexisting = Len(iw.w.dive_table)]),
     returned |-> FALSE]

\* lines 1733-1736: m is the state after merge_imported_dives
process_imported_merged(m, iw, flags) ==
    process_imported_grouped(
        IF "IMPORT_ADD_TO_NEW_TRIP" \notin flags
        THEN autogroup_dives(m.w, m.table, iw.import_trip_table)
        ELSE [w |-> m.w, tt |-> iw.import_trip_table],
        m.table, iw, flags)

\* process_imported_dives up to the loop over the import trips
\* (lines 1689-1740); returned says whether it took the early return
process_imported_prologue(iw, flags) ==
    IF Len(iw.import_table) = 0
    THEN [o |-> Obj(iw.w, process_imported_locals(iw, flags)), returned |-> TRUE]
    ELSE process_imported_merged(
             merge_imported_dives(iw.w, sort_dive_table(iw.w, iw.import_table)),
             iw, flags)

\* the inner for loop of the trip loop (lines 1756-1764); it runs on the
\* same variable i as the outer loop
RECURSIVE add_trip_dives_loop(_, _)
add_trip_dives_loop(o, trip_import) ==
    IF o.i >= Len(o.w.trip[trip_import].dives) THEN o
    ELSE LET d == o.w.trip[trip_import].dives[o.i + 1]
         IN  add_trip_dives_loop(
                 [o EXCEPT !.dives_to_add = insert_dive(o.w, @, d),
                           !.sequence_changed = @ \/ ~dive_is_after_last(o.w, d),
                           !.import_table = remove_dive(@, d),
                           !.i = @ + 1],
                 trip_import)

\* lines 1765-1767 and the i++ of the loop header: a is the state after the
\* inner loop
add_trip_as_is(a, trip_import) ==
    [a EXCEPT !.trips_to_add = insert_trip(a.w, trip_import, @),
              !.w = [@ EXCEPT !.trip[trip_import].dives = <<>>],
              !.i = @ + 1]

\* lines 1751-1767: m is the state after try_to_merge_trip, or the state
\* on entry when the trip was not to be merged
trip_loop_rest(m, trip_import) ==
    IF m.merged
    THEN [m EXCEPT !.i = @ + 1]
    ELSE add_trip_as_is(add_trip_dives_loop([m EXCEPT !.i = 0], trip_import),
                        trip_import)

\* one pass through the body of the trip loop (lines 1747-1768) followed by
\* the i++ of the loop header
trip_loop_body(o) ==
    LET trip_import == o.import_trip_table[o.i + 1]
    IN  trip_loop_rest(
            IF "IMPORT_MERGE_ALL_TRIPS" \in o.flags \/ o.w.trip[trip_import].autogen
            THEN try_to_merge_trip(o, trip_import, "IMPORT_PREFER_IMPORTED" \in o.flags)
            ELSE [o EXCEPT !.merged = FALSE],
            trip_import)

RECURSIVE new_trip_dives_loop(_, _, _)
new_trip_dives_loop(o, new_trip, i) ==
    IF i >= Len(o.import_table) THEN o
    ELSE LET d == o.import_table[i + 1]
             w1 == [o.w EXCEPT !.dive[d].divetrip = new_trip]
         IN  new_trip_dives_loop(
                 [o EXCEPT !.w = w1,
                           !.dives_to_add = insert_dive(w1, @, d),
                           !.sequence_changed = @ \/ ~dive_is_after_last(w1, d)],
                 new_trip, i + 1)

RECURSIVE renumber_loop(_, _, _, _)
renumber_loop(w, dives_to_add, i, nr) ==
    IF i >= Len(dives_to_add) THEN w
    ELSE renumber_loop([w EXCEPT !.dive[dives_to_add[i + 1]].number = nr + 1],
                       dives_to_add, i + 1, nr + 1)

\* lines 1774-1785 without the insert_trip of line 1775
add_to_new_trip_unlisted(o, wt) ==
    [new_trip_dives_loop([o EXCEPT !.w = wt], Len(wt.trip), 0)
        EXCEPT !.import_table = <<>>]

\* lines 1774-1785: the remaining dives go to a new trip
add_to_new_trip(o, wt) ==
    [new_trip_dives_loop([o EXCEPT !.w = wt,
                                   !.trips_to_add = insert_trip(wt, Len(wt.trip), @)],
                         Len(wt.trip), 0)
        EXCEPT !.import_table = <<>>]

\* lines 1792-1805: o is the state after the remaining dives were handled
renumber_new_dives(o) ==
    LET nr == IF Len(o.w.dive_table) > 0
              THEN o.w.dive[o.w.dive_table[Len(o.w.dive_table)]].number
              ELSE 0
    IN  IF ~o.sequence_changed /\ nr >= o.preexisting /\ ~o.new_dive_has_number
        THEN [o EXCEPT !.w = renumber_loop(@, o.dives_to_add,
                                           o.start_renumbering_at, nr)]
        ELSE o

\* process_imported_dives after the trip loop (lines 1770-1806)
process_imported_epilogue(o) ==
    renumber_new_dives(
        IF "IMPORT_ADD_TO_NEW_TRIP" \in o.flags /\ Len(o.import_table) > 0
        THEN add_to_new_trip([o EXCEPT !.import_trip_table = <<>>],
                             create_trip_from_dive(o.w, o.import_table[1]))
        ELSE IF Len(o.import_table) > 0
        THEN [merge_dive_tables([o EXCEPT !.import_trip_table = <<>>],
                                o.import_table, FALSE, o.w.dive_table,
                                "IMPORT_PREFER_IMPORTED" \in o.flags, NULL)
                 EXCEPT !.import_table = <<>>]
        ELSE [o EXCEPT !.import_trip_table = <<>>])

RECURSIVE add_new_dives_to_trips(_, _, _)
add_new_dives_to_trips(w, dives_to_add, i) ==
    IF i >= Len(dives_to_add) THEN w
    ELSE LET d == dives_to_add[i + 1]
             t == w.dive[d].divetrip
         IN  add_new_dives_to_trips(
                 IF t = NULL THEN w
                 ELSE add_dive_to_trip([w EXCEPT !.dive[d].divetrip = NULL], d, t),
                 dives_to_add, i + 1)

RECURSIVE remove_old_dives(_, _, _)
remove_old_dives(w, dives_to_remove, i) ==
    IF i >= Len(dives_to_remove) THEN w
    ELSE remove_old_dives(delete_single_dive(w, get_divenr(w, dives_to_remove[i + 1])),
                          dives_to_remove, i + 1)

RECURSIVE add_new_dives(_, _, _)
add_new_dives(w, dives_to_add, i) ==
    IF i >= Len(dives_to_add) THEN w
    ELSE LET d == dives_to_add[i + 1]
             idx == dive_table_get_insertion_index(w, w.dive_table, d)
         IN  add_new_dives(add_single_dive(w, idx, d), dives_to_add, i + 1)

RECURSIVE add_new_trips(_, _, _)
add_new_trips(w, trips_to_add, i) ==
    IF i >= Len(trips_to_add) THEN w
    ELSE add_new_trips([w EXCEPT !.trip_table = insert_trip(w, trips_to_add[i + 1], @)],
                       trips_to_add, i + 1)

\* add_imported_dives after process_imported_dives returned (lines 1585-1617)
apply_imported_dives(o) ==
    LET w1 == add_new_dives_to_trips(o.w, o.dives_to_add, 0)
        w2 == remove_old_dives(w1, o.dives_to_remove, 0)
        w3 == add_new_dives(w2, o.dives_to_add, 0)
        w4 == add_new_trips(w3, o.trips_to_add, 0)
    IN  [w4 EXCEPT !.current_dive =
                       IF Len(w4.dive_table) > 0
                       THEN w4.dive_table[Len(w4.dive_table)]
                       ELSE NULL]

\* the loop over the import trips (lines 1746-1769) as a whole; ended is
\* FALSE when the loop reads a freed trip or is still running after fuel
\* passes
RECURSIVE trip_loop(_, _)
trip_loop(o, fuel) ==
    IF o.i >= Len(o.import_trip_table) THEN [o |-> o, ended |-> TRUE]
    ELSE IF fuel = 0 \/ o.w.trip[o.import_trip_table[o.i + 1]].freed
    THEN [o |-> o, ended |-> FALSE]
    ELSE trip_loop(trip_loop_body(o), fuel - 1)

\* add_imported_dives from entry to return; iw holds the world and the two
\* import tables
add_imported_dives(iw, flags) ==
    LET r == process_imported_prologue(iw, flags)
        l == IF r.returned THEN [o |-> r.o, ended |-> TRUE]
             ELSE trip_loop(r.o, MaxPasses)
        e == IF r.returned THEN r.o ELSE process_imported_epilogue(l.o)
    IN  [w |-> apply_imported_dives(e), ended |-> l.ended]

-----------------------------------------------------------------------------
(* The state after a log file was parsed and before process_loaded_dives:   *)
(* the parser appends the dives to the global dive table in file order (the *)
(* ids follow that order), allocates the trips in the order it meets them   *)
(* and hooks every dive of a trip up with add_dive_to_trip.                 *)

DiveAttrs(Whens, Durations, NoTrips, Numbers, Sigs) ==
    {NewDive(wh, du, nt, nu, sg) :
        wh \in Whens, du \in Durations, nt \in NoTrips, nu \in Numbers, sg \in Sigs}

\* trip of each dive (0: none): trip k + 1 is first used after trip k, and
\* no trip is left without a dive
TripAssignments(n, k) ==
    {f \in [1..n -> 0..k] :
        /\ \A t \in 1..k : \E i \in 1..n : f[i] = t
        /\ \A i \in 1..n : \A t \in 2..k :
              f[i] = t => \E j \in 1..(i - 1) : f[j] = t - 1}

RECURSIVE hook_up_dives(_, _, _)
hook_up_dives(w, f, i) ==
    IF i > Len(w.dive) THEN w
    ELSE hook_up_dives(IF f[i] = NULL THEN w ELSE add_dive_to_trip(w, i, f[i]),
                       f, i + 1)

ParsedWorld(ds, f, ag, grp) ==
    hook_up_dives(
        [dive |-> ds,
         trip |-> [t \in 1..Len(ag) |-> NewTrip(ag[t])],
         dive_table |-> [i \in 1..Len(ds) |-> i],
         trip_table |-> [t \in 1..Len(ag) |-> t],
         amount_selected |-> 0, current_dive |-> NULL, autogroup |-> grp],
        f, 1)

\* the dives of a log are recordings of different dives: at most one, the
\* first of the file, carries a signature
DiveLists(n, Attrs) ==
    {ds \in [1..n -> Attrs] : \A x \in 2..n : ds[x].sig = 0}

ParsedWorlds(N, K, Attrs, Autogens) ==
    {ParsedWorld(ds, f, ag, grp) :
        <<ds, f, ag, grp>> \in
            UNION {DiveLists(n, Attrs) \X TripAssignments(n, k) \X [1..k -> Autogens]
                       \X BOOLEAN : <<n, k>> \in (0..N) \X (0..K)}}

-----------------------------------------------------------------------------
(* Loading a file: parse, then process_loaded_dives *)

\* the dives of a loaded file start up to one trip gap apart
LoadAttrs == DiveAttrs(0..TRIP_THRESHOLD, 1..MaxDuration, BOOLEAN, {0}, {0})

InitLoad ==
    /\ \E w \in ParsedWorlds(MaxDives - 1, MaxTrips - 1, LoadAttrs, {FALSE}) :
          /\ dive = w.dive
          /\ trip = w.trip
          /\ dive_table = w.dive_table
          /\ trip_table = w.trip_table
          /\ amount_selected = w.amount_selected
          /\ current_dive = w.current_dive
          /\ autogroup = w.autogroup
    /\ dive_list_changed = FALSE
    /\ imports = 0
    /\ deco_result = NoResult
    /\ last_call = NoCall
    /\ title_updates = 0
    /\ pc = "parsed"
    /\ plan = IdlePlan

ProcessLoadedDives ==
    /\ pc = "parsed"
    /\ SetWorld(process_loaded_dives(World))
    /\ pc' = "idle"
    /\ UNCHANGED <<dive_list_changed, plan, imports, deco_result, last_call,
                   title_updates>>

NextLoad == ProcessLoadedDives

SpecLoad == InitLoad /\ [][NextLoad]_vars

-----------------------------------------------------------------------------
(* Importing: add_imported_dives(import_table, import_trip_table, flags).   *)
(* The caller (a parser or a download) has allocated the dives and trips of *)
(* the two import tables like a parsed file.                                *)

\* an import that brings trips and no dive: the trips of a file whose trips
\* hold no dive
TripsOnly(K, Autogens) ==
    {<<<<>>, <<>>, ag>> : ag \in UNION {[1..k -> Autogens] : k \in 1..K}}

ImportContents(N, K, Attrs, Autogens) ==
    TripsOnly(K, Autogens) \cup
    UNION {DiveLists(n, Attrs) \X TripAssignments(n, k) \X [1..k -> Autogens] :
           <<n, k>> \in (0..N) \X (0..K)}

\* the world with the import's dives and trips allocated, and the two tables
ImportWorld(w, ds, f, ag) ==
    LET base == Len(w.dive)
        tbase == Len(w.trip)
        w0 == [w EXCEPT
                 !.dive = @ \o ds,
                 !.trip = @ \o [t \in 1..Len(ag) |-> NewTrip(ag[t])]]
        hooked[i \in 0..Len(ds)] ==
            IF i = 0 THEN w0
            ELSE IF f[i] = NULL THEN hooked[i - 1]
            ELSE add_dive_to_trip(hooked[i - 1], base + i, tbase + f[i])
    IN  [w |-> hooked[Len(ds)],
         import_table |-> [i \in 1..Len(ds) |-> base + i],
         import_trip_table |-> [t \in 1..Len(ag) |-> tbase + t]]

\* process_imported_dives has returned: its locals are gone, the output
\* tables, the emptied import tables and the flags of add_imported_dives
\* remain
SetReturned(o) ==
    /\ SetWorld(o.w)
    /\ plan' = [IdlePlan EXCEPT !.import_table = o.import_table,
                                !.import_trip_table = o.import_trip_table,
                                !.flags = o.flags,
                                !.dives_to_add = o.dives_to_add,
                                !.dives_to_remove = o.dives_to_remove,
                                !.trips_to_add = o.trips_to_add]
    /\ pc' = "planned"

\* r is the state after the first part of process_imported_dives
ImportBegun(r) ==
    IF r.returned THEN SetReturned(r.o)
    ELSE /\ SetObj(r.o)
         /\ pc' = "trip_loop"

\* add_imported_dives is entered and process_imported_dives runs up to its
\* loop over the import trips
ImportStart(N, K, Attrs, Autogens, FlagSets) ==
    /\ pc = "idle"
    /\ imports' = imports + 1
    /\ \E c \in ImportContents(N, K, Attrs, Autogens), fl \in FlagSets :
          /\ Len(dive) + Len(c[1]) <= MaxDives
          /\ Len(trip) + Len(c[3]) <= MaxTrips
          /\ ImportBegun(process_imported_prologue(
                             ImportWorld(World, c[1], c[2], c[3]), fl))
    /\ UNCHANGED <<dive_list_changed, deco_result, last_call,
                   title_updates>>

\* the imports of a session are followed up to MaxImports calls
ImportBegin(N, K, Attrs, Autogens, FlagSets) ==
    /\ imports < MaxImports
    /\ ImportStart(N, K, Attrs, Autogens, FlagSets)

\* o is the state after one pass through the trip loop; insert_trip on a
\* table that cannot grow any more has ended the process (grow_trip_table:
\* exit(1))
TripLoopResult(o) ==
    IF Len(o.trips_to_add) > MaxTableLen
    THEN /\ pc' = "exit"
         /\ UNCHANGED <<dive, trip, dive_table, trip_table, amount_selected,
                        current_dive, autogroup, plan>>
    ELSE /\ SetObj(o)
         /\ pc' = "trip_loop"

\* One iteration of the loop over the import trips.  A trip that
\* try_to_merge_trip has freed is read again only through a stale pointer:
\* the behaviour is undefined from there on.
TripLoopStep ==
    /\ pc = "trip_loop"
    /\ plan.i < Len(plan.import_trip_table)
    /\ IF trip[plan.import_trip_table[plan.i + 1]].freed
       THEN /\ pc' = "undefined"
            /\ UNCHANGED <<dive, trip, dive_table, trip_table, amount_selected,
                           current_dive, autogroup, plan>>
       ELSE TripLoopResult(trip_loop_body(Obj(World, plan)))
    /\ UNCHANGED <<dive_list_changed, imports, deco_result, last_call,
                   title_updates>>

\* the trip loop is left and process_imported_dives runs to its end
PlanFinish ==
    /\ pc = "trip_loop"
    /\ plan.i >= Len(plan.import_trip_table)
    /\ SetReturned(process_imported_epilogue(Obj(World, plan)))
    /\ UNCHANGED <<dive_list_changed, imports, deco_result, last_call,
                   title_updates>>

\* mark_divelist_changed that forgets the early return
mark_divelist_changed_unconditionally(changed) ==
    /\ last_call' = <<"mark_divelist_changed", changed, 0>>
    /\ dive_list_changed' = changed
    /\ title_updates' = title_updates + 1

\* mark_divelist_changed(changed); updateWindowTitle() is a call into the
\* user interface, which the model counts
mark_divelist_changed(changed) ==
    /\ last_call' = <<"mark_divelist_changed", changed, 0>>
    /\ IF dive_list_changed = changed
       THEN UNCHANGED <<dive_list_changed, title_updates>>
       ELSE /\ dive_list_changed' = changed
            /\ title_updates' = title_updates + 1

\* unsaved_changes(): the flag as an int
unsaved_changes(w) == IF w THEN 1 ELSE 0

\* add_imported_dives applies the plan and returns
ApplyPlan ==
    /\ pc = "planned"
    /\ SetWorld(apply_imported_dives(Obj(World, plan)))
    /\ plan' = IdlePlan
    /\ mark_divelist_changed(TRUE)
    /\ pc' = "idle"
    /\ UNCHANGED <<imports, deco_result>>

\* set_autogroup(value): the user switches the autogroup menu item
SetAutogroup(value) ==
    /\ pc = "idle"
    /\ autogroup' = value
    /\ UNCHANGED <<dive, trip, dive_table, trip_table, amount_selected,
                   current_dive, dive_list_changed, pc, plan, imports, deco_result, last_call,
                   title_updates>>

ImportFlagSets == SUBSET (Flags \ {"IMPORT_IS_DOWNLOADED"})

\* an import without flags
PlainImport == {{}}

\* the dives an import brings: started on days 1..MaxWhen, not numbered,
\* possibly the recording of a dive the log has already (sig 1)
ImportAttrs == DiveAttrs(1..MaxWhen, 1..MaxDuration, {FALSE}, {0}, {0, 1})

\* the trips of an import come from a file: autogen is not set
ImportAutogens == {FALSE}

InitImport ==
    /\ \E w \in ParsedWorlds(MaxDives - 1, MaxTrips - 1,
                             DiveAttrs(1..MaxWhen, 1..MaxDuration, {FALSE}, {0}, {0, 1}),
                             {FALSE}) :
          /\ dive = w.dive
          /\ trip = w.trip
          /\ dive_table = w.dive_table
          /\ trip_table = w.trip_table
          /\ amount_selected = w.amount_selected
          /\ current_dive = w.current_dive
          /\ autogroup = w.autogroup
    /\ dive_list_changed = FALSE
    /\ imports = 0
    /\ deco_result = NoResult
    /\ last_call = NoCall
    /\ title_updates = 0
    /\ pc = "parsed"
    /\ plan = IdlePlan

NextImport ==
    \/ ProcessLoadedDives
    \/ \E value \in BOOLEAN : SetAutogroup(value)
    \/ ImportBegin(MaxDives - 1, MaxTrips, ImportAttrs, ImportAutogens,
                   ImportFlagSets)
    \/ TripLoopStep
    \/ PlanFinish
    \/ ApplyPlan

SpecImport == InitImport /\ [][NextImport]_vars

-----------------------------------------------------------------------------
(* Editing trips: the callers of the trip registry between load and exit.  *)
(* The dives and trips they pass are dives of the global dive table and    *)
(* trips of the global trip table.                                         *)

\* the entries of trip lists whose dive does not point back to the trip
StrayEntries ==
    {e \in (1..Len(trip)) \X (1..MaxTableLen) :
        /\ e[2] <= Len(trip[e[1]].dives)
        /\ dive[trip[e[1]].dives[e[2]]].divetrip # e[1]}

\* the editing is followed while no more than MaxStrayEntries such entries
\* are around
Followed == pc = "idle" /\ Cardinality(StrayEntries) <= MaxStrayEntries

\* add_dive_to_trip(dive, trip), also from callers that have not removed the
\* dive from its trip beforehand
AddDiveToTrip(d, t) ==
    /\ Followed
    /\ SetWorld(add_dive_to_trip(World, d, t))
    /\ UNCHANGED <<dive_list_changed, pc, plan, imports, deco_result, last_call,
                   title_updates>>

\* unregister_dive_from_trip(dive)
UnregisterDiveFromTrip(d) ==
    /\ Followed
    /\ SetWorld(unregister_dive_from_trip(World, d))
    /\ UNCHANGED <<dive_list_changed, pc, plan, imports, deco_result, last_call,
                   title_updates>>

\* remove_dive_from_trip(dive, &trip_table)
RemoveDiveFromTrip(d) ==
    /\ Followed
    /\ SetWorld(remove_dive_from_trip(World, d))
    /\ UNCHANGED <<dive_list_changed, pc, plan, imports, deco_result, last_call,
                   title_updates>>

\* create_and_hookup_trip_from_dive(dive, &trip_table), the caller of
\* insert_trip on the global trip table, for a dive without a trip
CreateAndHookupTrip(d) ==
    /\ Followed
    /\ dive[d].divetrip = NULL
    /\ Len(trip) + 2 <= MaxTrips
    /\ SetWorld(create_and_hookup_trip_from_dive(World, d))
    /\ UNCHANGED <<dive_list_changed, pc, plan, imports, deco_result, last_call,
                   title_updates>>

\* delete_single_dive(idx)
DeleteSingleDive(idx) ==
    /\ Followed
    /\ SetWorld(delete_single_dive(World, idx))
    /\ UNCHANGED <<dive_list_changed, pc, plan, imports, deco_result, last_call,
                   title_updates>>

InitTrips ==
    /\ \E w \in ParsedWorlds(MaxDives - 1, MaxTrips - 1,
                             DiveAttrs(1..MaxWhen, 1..MaxDuration, {FALSE}, {0}, {0}),
                             {FALSE}) :
          /\ dive = w.dive
          /\ trip = w.trip
          /\ dive_table = w.dive_table
          /\ trip_table = w.trip_table
          /\ amount_selected = w.amount_selected
          /\ current_dive = w.current_dive
          /\ autogroup = w.autogroup
    /\ dive_list_changed = FALSE
    /\ imports = 0
    /\ deco_result = NoResult
    /\ last_call = NoCall
    /\ title_updates = 0
    /\ pc = "parsed"
    /\ plan = IdlePlan

NextTrips ==
    \/ ProcessLoadedDives
    \/ \E d \in Range(dive_table), t \in Range(trip_table) : AddDiveToTrip(d, t)
    \/ \E d \in Range(dive_table) : UnregisterDiveFromTrip(d)
    \/ \E d \in Range(dive_table) : RemoveDiveFromTrip(d)
    \/ \E d \in Range(dive_table) : CreateAndHookupTrip(d)
    \/ \E idx \in 0..(Len(dive_table) - 1) : DeleteSingleDive(idx)

SpecTrips == InitTrips /\ [][NextTrips]_vars

-----------------------------------------------------------------------------
(* Selecting: the dive list selects, deselects and filters dives of the    *)
(* global dive table, takes dives out of the table and puts them back      *)
(* (undo and redo), deletes dives and imports.                             *)

\* the dives that were taken out of the global table and are kept by the
\* caller of unregister_dive
Unregistered ==
    {d \in 1..Len(dive) : ~dive[d].freed /\ d \notin Range(dive_table)}

\* select_dive(dive)
SelectDive(d) ==
    /\ pc = "idle"
    /\ SetWorld(select_dive(World, d))
    /\ UNCHANGED <<dive_list_changed, pc, plan, imports, deco_result, last_call,
                   title_updates>>

\* deselect_dive(dive)
DeselectDive(d) ==
    /\ pc = "idle"
    /\ SetWorld(deselect_dive(World, d))
    /\ UNCHANGED <<dive_list_changed, pc, plan, imports, deco_result, last_call,
                   title_updates>>

\* filter_dive(dive, shown)
FilterDive(d, shown) ==
    /\ pc = "idle"
    /\ SetWorld(filter_dive(World, d, shown))
    /\ UNCHANGED <<dive_list_changed, pc, plan, imports, deco_result, last_call,
                   title_updates>>

\* select_dives_in_trip(trip)
SelectDivesInTrip(t) ==
    /\ pc = "idle"
    /\ SetWorld(select_dives_in_trip(World, t))
    /\ UNCHANGED <<dive_list_changed, pc, plan, imports, deco_result, last_call,
                   title_updates>>

\* deselect_dives_in_trip(trip)
DeselectDivesInTrip(t) ==
    /\ pc = "idle"
    /\ SetWorld(deselect_dives_in_trip(World, t))
    /\ UNCHANGED <<dive_list_changed, pc, plan, imports, deco_result, last_call,
                   title_updates>>

\* unregister_dive(idx); its caller takes the dive off its trip's list, as
\* unregister_dive requires
UnregisterDive(idx) ==
    /\ pc = "idle"
    /\ Cardinality(Unregistered) < MaxUnregistered
    /\ SetWorld(unregister_dive(
                    unregister_dive_from_trip(World, get_dive(World, idx)),
                    idx))
    /\ UNCHANGED <<dive_list_changed, pc, plan, imports, deco_result, last_call,
                   title_updates>>

\* add_single_dive(idx, dive) for a dive that is not in the table, at the
\* index its caller has looked up with dive_table_get_insertion_index
AddSingleDive(idx, d) ==
    /\ pc = "idle"
    /\ idx = dive_table_get_insertion_index(World, dive_table, d)
    /\ SetWorld(add_single_dive(World, idx, d))
    /\ UNCHANGED <<dive_list_changed, pc, plan, imports, deco_result, last_call,
                   title_updates>>

\* delete_single_dive(idx) from the dive list
DeleteSelectableDive(idx) ==
    /\ pc = "idle"
    /\ SetWorld(delete_single_dive(World, idx))
    /\ UNCHANGED <<dive_list_changed, pc, plan, imports, deco_result, last_call,
                   title_updates>>

InitSelect ==
    /\ \E w \in ParsedWorlds(MaxDives - 1, MaxTrips - 2,
                             DiveAttrs({1}, 1..MaxDuration, {FALSE}, {0}, {0, 1}),
                             {FALSE}) :
          /\ dive = w.dive
          /\ trip = w.trip
          /\ dive_table = w.dive_table
          /\ trip_table = w.trip_table
          /\ amount_selected = w.amount_selected
          /\ current_dive = w.current_dive
          /\ autogroup = w.autogroup
    /\ dive_list_changed = FALSE
    /\ imports = 0
    /\ deco_result = NoResult
    /\ last_call = NoCall
    /\ title_updates = 0
    /\ pc = "parsed"
    /\ plan = IdlePlan

NextSelect ==
    \/ ProcessLoadedDives
    \/ \E d \in Range(dive_table) : SelectDive(d)
    \/ \E d \in Range(dive_table) : DeselectDive(d)
    \/ \E d \in Range(dive_table), shown \in BOOLEAN : FilterDive(d, shown)
    \/ \E t \in Range(trip_table) : SelectDivesInTrip(t)
    \/ \E t \in Range(trip_table) : DeselectDivesInTrip(t)
    \/ \E idx \in 0..(Len(dive_table) - 1) : UnregisterDive(idx)
    \/ \E idx \in 0..Len(dive_table), d \in Unregistered : AddSingleDive(idx, d)
    \/ \E idx \in 0..(Len(dive_table) - 1) : DeleteSelectableDive(idx)
    \/ /\ Len(dive) < MaxDives - 2
       /\ ImportBegin(MaxDives - 3, MaxTrips - 2, ImportAttrs, ImportAutogens,
                      PlainImport)
    \/ TripLoopStep
    \/ PlanFinish
    \/ ApplyPlan

SpecSelect == InitSelect /\ [][NextSelect]_vars

-----------------------------------------------------------------------------
(* Importing into a log whose dives are numbered *)

\* the dives of a numbered log: all of day 1, numbered up to MaxNumber or not
\* numbered
NumberedAttrs == DiveAttrs({1}, 1..MaxDuration, {FALSE}, 0..MaxNumber, {0, 1})

\* the dives an import brings into a numbered log
NumberedImportAttrs == DiveAttrs(1..MaxWhen, 1..MaxDuration, {FALSE}, {0, 1}, {0, 1})

InitRenumber ==
    /\ \E w \in ParsedWorlds(MaxDives - 2, MaxTrips - 2, NumberedAttrs, {FALSE}) :
          /\ dive = w.dive
          /\ trip = w.trip
          /\ dive_table = w.dive_table
          /\ trip_table = w.trip_table
          /\ amount_selected = w.amount_selected
          /\ current_dive = w.current_dive
          /\ autogroup = w.autogroup
    /\ dive_list_changed = FALSE
    /\ imports = 0
    /\ deco_result = NoResult
    /\ last_call = NoCall
    /\ title_updates = 0
    /\ pc = "parsed"
    /\ plan = IdlePlan

NextRenumber ==
    \/ ProcessLoadedDives
    \/ ImportBegin(MaxDives - 2, MaxTrips - 2, NumberedImportAttrs, ImportAutogens,
                   ImportFlagSets)
    \/ TripLoopStep
    \/ PlanFinish
    \/ ApplyPlan

SpecRenumber == InitRenumber /\ [][NextRenumber]_vars

-----------------------------------------------------------------------------
(* Seeding the decompression state for a dive of a loaded log *)

\* the dives of a log with dives that last into the next one
LongDiveAttrs == DiveAttrs(0..MaxWhen, 1..MaxLongDuration, {FALSE}, {0}, {0})

InitDeco ==
    /\ \E w \in ParsedWorlds(MaxDives - 1, MaxTrips - 1, LongDiveAttrs, {FALSE}) :
          /\ dive = w.dive
          /\ trip = w.trip
          /\ dive_table = w.dive_table
          /\ trip_table = w.trip_table
          /\ amount_selected = w.amount_selected
          /\ current_dive = w.current_dive
          /\ autogroup = w.autogroup
    /\ dive_list_changed = FALSE
    /\ imports = 0
    /\ deco_result = NoResult
    /\ last_call = NoCall
    /\ title_updates = 0
    /\ pc = "parsed"
    /\ plan = IdlePlan

\* init_decompression(ds, d) for a dive of the dive table
InitDecompression(d) ==
    /\ pc = "idle"
    /\ deco_result' = <<d, init_decompression(World, d)>>
    /\ UNCHANGED <<dive, trip, dive_table, trip_table, amount_selected,
                   current_dive, autogroup, dive_list_changed, pc, plan, imports,
                   last_call, title_updates>>

NextDeco ==
    \/ ProcessLoadedDives
    \/ \E d \in Range(dive_table) : InitDecompression(d)

SpecDeco == InitDeco /\ [][NextDeco]_vars

-----------------------------------------------------------------------------
(* Taking a dive out of the global dive table and putting it back where it *)
(* belongs: d = unregister_dive(i), then                                   *)
(* add_single_dive(dive_table_get_insertion_index(&dive_table, d), d).     *)

\* the dives of a log with ties of the start time
TiedAttrs == DiveAttrs(1..MaxWhen, 1..MaxDuration, {FALSE}, {0}, {0})

InitReinsert ==
    /\ \E w \in ParsedWorlds(MaxDives - 1, MaxTrips - 1, TiedAttrs, {FALSE}) :
          /\ dive = w.dive
          /\ trip = w.trip
          /\ dive_table = w.dive_table
          /\ trip_table = w.trip_table
          /\ amount_selected = w.amount_selected
          /\ current_dive = w.current_dive
          /\ autogroup = w.autogroup
    /\ dive_list_changed = FALSE
    /\ imports = 0
    /\ deco_result = NoResult
    /\ last_call = NoCall
    /\ title_updates = 0
    /\ pc = "parsed"
    /\ plan = IdlePlan

\* d = unregister_dive(idx)
UnregisterDiveCall(idx) ==
    /\ pc = "idle"
    /\ SetWorld(unregister_dive(World, idx))
    /\ last_call' = <<"unregister_dive", idx, get_dive(World, idx)>>
    /\ pc' = "unregistered"
    /\ UNCHANGED <<dive_list_changed, plan, imports, deco_result, title_updates>>

\* add_single_dive(dive_table_get_insertion_index(&dive_table, d), d) for
\* the dive d that unregister_dive has just returned
ReinsertDive ==
    /\ pc = "unregistered"
    /\ LET d == last_call[3]
       IN  SetWorld(add_single_dive(
                        World,
                        dive_table_get_insertion_index(World, dive_table, d),
                        d))
    /\ pc' = "idle"
    /\ UNCHANGED <<dive_list_changed, plan, imports, deco_result, last_call,
                   title_updates>>

NextReinsert ==
    \/ ProcessLoadedDives
    \/ \E d \in Range(dive_table) : SelectDive(d)
    \/ \E idx \in 0..(Len(dive_table) - 1) : UnregisterDiveCall(idx)
    \/ ReinsertDive

SpecReinsert == InitReinsert /\ [][NextReinsert]_vars

-----------------------------------------------------------------------------

(* Importing a set of dives into an empty log in batches: successive calls *)
(* of add_imported_dives without flags, each with dives that are in no     *)
(* trip.                                                                   *)

\* the dives of a batch: not numbered, recordings of different dives
BatchAttrs == DiveAttrs(0..MaxWhen, 1..MaxDuration, {FALSE}, {0}, {0})

InitBatches ==
    /\ dive = <<>>
    /\ trip = <<>>
    /\ dive_table = <<>>
    /\ trip_table = <<>>
    /\ amount_selected = 0
    /\ current_dive = NULL
    /\ autogroup \in BOOLEAN
    /\ dive_list_changed = FALSE
    /\ imports = 0
    /\ deco_result = NoResult
    /\ last_call = NoCall
    /\ title_updates = 0
    /\ pc = "idle"
    /\ plan = IdlePlan

\* add_imported_dives is entered with the next batch
ImportBatch ==
    /\ imports < MaxBatches
    /\ ImportStart(MaxDives - 1, 0, BatchAttrs, ImportAutogens, PlainImport)

NextBatches ==
    \/ ImportBatch
    \/ TripLoopStep
    \/ PlanFinish
    \/ ApplyPlan

SpecBatches == InitBatches /\ [][NextBatches]_vars

-----------------------------------------------------------------------------

(* Comparing the dives of a loaded log *)

InitOrder ==
    /\ \E w \in ParsedWorlds(MaxDives, MaxTrips - 1, TiedAttrs, {FALSE}) :
          /\ dive = w.dive
          /\ trip = w.trip
          /\ dive_table = w.dive_table
          /\ trip_table = w.trip_table
          /\ amount_selected = w.amount_selected
          /\ current_dive = w.current_dive
          /\ autogroup = w.autogroup
    /\ dive_list_changed = FALSE
    /\ imports = 0
    /\ deco_result = NoResult
    /\ last_call = NoCall
    /\ title_updates = 0
    /\ pc = "parsed"
    /\ plan = IdlePlan

\* dive_less_than(a, b)
DiveLessThan(a, b) ==
    /\ pc = "idle"
    /\ last_call' = <<"dive_less_than", <<a, b>>, dive_less_than(World, a, b)>>
    /\ UNCHANGED <<dive, trip, dive_table, trip_table, amount_selected,
                   current_dive, autogroup, dive_list_changed, pc, plan, imports,
                   deco_result, title_updates>>

NextOrder ==
    \/ ProcessLoadedDives
    \/ \E a, b \in Range(dive_table) : DiveLessThan(a, b)

SpecOrder == InitOrder /\ [][NextOrder]_vars

-----------------------------------------------------------------------------

(* Looking up the dives of a loaded log by time *)

\* the timestamps the dive list asks about: from the earliest start of a
\* dive to after the latest end
QueryTimes == 0..(MaxWhen + MaxLongDuration + 1)

\* get_dive_id_closest_to(when)
GetDiveIdClosestTo(when) ==
    /\ pc = "idle"
    /\ last_call' = <<"get_dive_id_closest_to", when,
                      get_dive_id_closest_to(World, when)>>
    /\ UNCHANGED <<dive, trip, dive_table, trip_table, amount_selected,
                   current_dive, autogroup, dive_list_changed, pc, plan, imports,
                   deco_result, title_updates>>

\* get_surface_interval(when)
GetSurfaceInterval(when) ==
    /\ pc = "idle"
    /\ last_call' = <<"get_surface_interval", when,
                      get_surface_interval(World, when)>>
    /\ UNCHANGED <<dive, trip, dive_table, trip_table, amount_selected,
                   current_dive, autogroup, dive_list_changed, pc, plan, imports,
                   deco_result, title_updates>>

NextQuery ==
    \/ ProcessLoadedDives
    \/ \E when \in QueryTimes : GetDiveIdClosestTo(when)
    \/ \E when \in QueryTimes : GetSurfaceInterval(when)

SpecQuery == InitDeco /\ [][NextQuery]_vars

-----------------------------------------------------------------------------

(* Asking for the gas of a dive *)

\* the mixes of the cylinders, <<o2, he>> in permille: air, two nitrox
\* mixes and three trimix mixes, two of them with the same helium
Mixes == {<<O2_IN_AIR, 0>>, <<320, 0>>, <<500, 0>>,
          <<150, 450>>, <<180, 450>>, <<210, 350>>}

Cylinders == {<<m[1], m[2], used, none>> : m \in Mixes, used \in BOOLEAN,
                                           none \in BOOLEAN}

\* a log of one dive with MAX_CYLINDERS cylinders
InitGas ==
    /\ \E c \in [1..MaxCylinders -> Cylinders] :
          dive = <<[NewDive(1, 1, FALSE, 0, 0) EXCEPT !.cylinder = c]>>
    /\ trip = <<>>
    /\ dive_table = <<1>>
    /\ trip_table = <<>>
    /\ amount_selected = 0
    /\ current_dive = NULL
    /\ autogroup = FALSE
    /\ dive_list_changed = FALSE
    /\ imports = 0
    /\ deco_result = NoResult
    /\ last_call = NoCall
    /\ title_updates = 0
    /\ pc = "idle"
    /\ plan = IdlePlan

\* get_dive_gas(dive, &o2, &he, &o2max)
GetDiveGas(d) ==
    /\ pc = "idle"
    /\ last_call' = <<"get_dive_gas", d, get_dive_gas(World, d)>>
    /\ UNCHANGED <<dive, trip, dive_table, trip_table, amount_selected,
                   current_dive, autogroup, dive_list_changed, pc, plan, imports,
                   deco_result, title_updates>>

NextGas == \E d \in Range(dive_table) : GetDiveGas(d)

SpecGas == InitGas /\ [][NextGas]_vars

-----------------------------------------------------------------------------

(* Calculating the CNS of the segments of a dive *)

\* po2 at the start and at the end of a segment (mbar): below, between and
\* above the po2 values of cns_table
SegmentPO2s == {50 * p : p \in 8..36}

InitCns ==
    /\ dive = <<>>
    /\ trip = <<>>
    /\ dive_table = <<>>
    /\ trip_table = <<>>
    /\ amount_selected = 0
    /\ current_dive = NULL
    /\ autogroup = FALSE
    /\ dive_list_changed = FALSE
    /\ imports = 0
    /\ deco_result = NoResult
    /\ last_call = NoCall
    /\ title_updates = 0
    /\ pc = "idle"
    /\ plan = IdlePlan

\* calculate_cns_dive works on a segment between two samples
CalculateCnsSegment(po2i, po2f) ==
    /\ pc = "idle"
    /\ last_call' = <<"calculate_cns_dive", <<po2i, po2f>>,
                      cns_segment_row(po2i, po2f)>>
    /\ UNCHANGED <<dive, trip, dive_table, trip_table, amount_selected,
                   current_dive, autogroup, dive_list_changed, pc, plan, imports,
                   deco_result, title_updates>>

\* calculate_cns_dive divides the duration of a segment by its maximum
\* exposure time
CalculateCnsExposure(po2i, po2f) ==
    /\ pc = "idle"
    /\ last_call' = <<"calculate_cns_dive: divisor", <<po2i, po2f>>,
                      cns_segment_exposure(po2i, po2f)>>
    /\ UNCHANGED <<dive, trip, dive_table, trip_table, amount_selected,
                   current_dive, autogroup, dive_list_changed, pc, plan, imports,
                   deco_result, title_updates>>

NextCns ==
    \/ \E po2i, po2f \in SegmentPO2s : CalculateCnsSegment(po2i, po2f)
    \/ \E po2i, po2f \in SegmentPO2s : CalculateCnsExposure(po2i, po2f)

SpecCns == InitCns /\ [][NextCns]_vars

-----------------------------------------------------------------------------

(* Changing and saving the log: the user interface marks the dive list as  *)
(* changed after an edit and as unchanged after saving, and imports mark   *)
(* it changed.                                                             *)

\* mark_divelist_changed(changed) called by the user interface
MarkDivelistChanged(changed) ==
    /\ pc = "idle"
    /\ title_updates < MaxTitleUpdates
    /\ mark_divelist_changed(changed)
    /\ UNCHANGED <<dive, trip, dive_table, trip_table, amount_selected,
                   current_dive, autogroup, pc, plan, imports, deco_result>>

NextDirty ==
    \/ \E changed \in BOOLEAN : MarkDivelistChanged(changed)
    \/ ImportBatch
    \/ TripLoopStep
    \/ PlanFinish
    \/ ApplyPlan

SpecDirty == InitBatches /\ [][NextDirty]_vars

-----------------------------------------------------------------------------

(* Adding a dive in dive_less_than order: a dive that unregister_dive has  *)
(* returned is added with add_single_dive(-1, d).                           *)

\* add_single_dive(idx, d) with a negative idx, for the dive d that
\* unregister_dive has just returned
AddSingleDiveNegativeIdx(idx, tmp) ==
    /\ pc = "unregistered"
    /\ idx < 0
    /\ SetWorld(add_single_dive_negative_idx(World, idx, last_call[3], tmp))
    /\ last_call' = <<"add_single_dive", idx, last_call[3]>>
    /\ pc' = "added"
    /\ UNCHANGED <<dive_list_changed, plan, imports, deco_result, title_updates>>

NextAdd ==
    \/ ProcessLoadedDives
    \/ \E idx \in 0..(Len(dive_table) - 1) : UnregisterDiveCall(idx)
    \/ \E tmp \in 0..Len(dive) : AddSingleDiveNegativeIdx(-1, tmp)

SpecAdd == InitReinsert /\ [][NextAdd]_vars

-----------------------------------------------------------------------------

(* Importing a file that holds several recordings of one dive: a long dive *)
(* of the log and short dives of the import that lie within it (sig 1) and  *)
(* apart from each other, so that merge_imported_dives leaves them alone.   *)
(* process_imported_dives is followed up to its return.                     *)

\* the dive of the log: it lasts from day 0 beyond the last start of an
\* imported dive
RecordedAttrs == DiveAttrs({0}, {MaxWhen + MaxDuration}, {FALSE}, {0}, {1})

\* the dives of the import, any of them possibly a recording of the dive of
\* the log
RecordingAttrs == DiveAttrs(0..MaxWhen, 1..MaxDuration, {FALSE}, {0}, {0, 1})

\* the imports whose dives do not overlap: each ends before the next begins
RecordingContents ==
    UNION {{ds \in [1..n -> RecordingAttrs] :
               \A x \in 1..n, y \in 1..n :
                   x # y => \/ ds[x].when + ds[x].duration < ds[y].when
                            \/ ds[y].when + ds[y].duration < ds[x].when}
                \X TripAssignments(n, k) \X [1..k -> ImportAutogens] :
           <<n, k>> \in (1..(MaxDives - 1)) \X (0..(MaxTrips - 1))}

InitRecordings ==
    /\ \E w \in ParsedWorlds(1, 1, RecordedAttrs, {FALSE}) :
          /\ dive = w.dive
          /\ trip = w.trip
          /\ dive_table = w.dive_table
          /\ trip_table = w.trip_table
          /\ amount_selected = w.amount_selected
          /\ current_dive = w.current_dive
          /\ autogroup = w.autogroup
    /\ dive_list_changed = FALSE
    /\ imports = 0
    /\ deco_result = NoResult
    /\ last_call = NoCall
    /\ title_updates = 0
    /\ pc = "parsed"
    /\ plan = IdlePlan

\* process_imported_dives is entered with the dives and trips of such a
\* file and runs up to its loop over the import trips
ImportRecordings ==
    /\ pc = "idle"
    /\ imports < MaxImports
    /\ imports' = imports + 1
    /\ \E c \in RecordingContents, fl \in ImportFlagSets :
          /\ Len(dive) + Len(c[1]) <= MaxDives
          /\ Len(trip) + Len(c[3]) <= MaxTrips
          /\ ImportBegun(process_imported_prologue(
                             ImportWorld(World, c[1], c[2], c[3]), fl))
    /\ UNCHANGED <<dive_list_changed, deco_result, last_call,
                   title_updates>>

NextRecordings ==
    \/ ProcessLoadedDives
    \/ ImportRecordings
    \/ TripLoopStep
    \/ PlanFinish

SpecRecordings == InitRecordings /\ [][NextRecordings]_vars

-----------------------------------------------------------------------------

(* The current dive: the dive list of SpecSelect, and the log is closed    *)
(* with clear_dive_file_data.                                              *)

\* clear_dive_file_data()
ClearDiveFileData ==
    /\ pc = "idle"
    /\ SetWorld(clear_dive_file_data(World))
    /\ UNCHANGED <<dive_list_changed, pc, plan, imports, deco_result, last_call,
                   title_updates>>

NextCurrent ==
    \/ NextSelect
    \/ ClearDiveFileData

SpecCurrent == InitSelect /\ [][NextCurrent]_vars

-----------------------------------------------------------------------------

(* Looking for a dive to show: the dive list filters dives of a loaded log *)
(* and asks for the visible dive next to a time.                           *)

\* find_next_visible_dive(when)
FindNextVisibleDive(when) ==
    /\ pc = "idle"
    /\ last_call' = <<"find_next_visible_dive", when,
                      find_next_visible_dive(World, when)>>
    /\ UNCHANGED <<dive, trip, dive_table, trip_table, amount_selected,
                   current_dive, autogroup, dive_list_changed, pc, plan, imports,
                   deco_result, title_updates>>

NextVisible ==
    \/ ProcessLoadedDives
    \/ \E d \in Range(dive_table), shown \in BOOLEAN : FilterDive(d, shown)
    \/ \E when \in QueryTimes : FindNextVisibleDive(when)

SpecVisible == InitReinsert /\ [][NextVisible]_vars

-----------------------------------------------------------------------------

(* The CNS of the dives of a loaded log with at most one trip *)

InitCnsWalk ==
    /\ \E w \in ParsedWorlds(MaxDives - 1, MaxTrips - 2, LongDiveAttrs, {FALSE}) :
          /\ dive = w.dive
          /\ trip = w.trip
          /\ dive_table = w.dive_table
          /\ trip_table = w.trip_table
          /\ amount_selected = w.amount_selected
          /\ current_dive = w.current_dive
          /\ autogroup = w.autogroup
    /\ dive_list_changed = FALSE
    /\ imports = 0
    /\ deco_result = NoResult
    /\ last_call = NoCall
    /\ title_updates = 0
    /\ pc = "parsed"
    /\ plan = IdlePlan

\* calculate_cns(d) for a dive of the dive table
CalculateCns(d, value) ==
    /\ pc = "idle"
    /\ SetWorld(calculate_cns(World, d, value).w)
    /\ last_call' = <<"calculate_cns", d, calculate_cns(World, d, value).cns>>
    /\ UNCHANGED <<dive_list_changed, pc, plan, imports, deco_result,
                   title_updates>>

NextCnsWalk ==
    \/ ProcessLoadedDives
    \/ \E d \in Range(dive_table), value \in 0..MaxCns : CalculateCns(d, value)

SpecCnsWalk == InitCnsWalk /\ [][NextCnsWalk]_vars

-----------------------------------------------------------------------------

(* A trip for a new dive: a file is loaded and a dive of the log asks for  *)
(* the trip it should be grouped with.                                     *)

\* get_trip_for_new_dive(new_dive, &allocated); the caller owns a new trip
GetTripForNewDive(new_dive) ==
    /\ pc = "idle"
    /\ LET r == get_trip_for_new_dive(World, new_dive)
       IN  /\ SetWorld(r.w)
           /\ last_call' = <<"get_trip_for_new_dive", new_dive,
                             <<r.trip, r.allocated>>>>
    /\ pc' = "asked"
    /\ UNCHANGED <<dive_list_changed, plan, imports, deco_result, title_updates>>

NextNewDive ==
    \/ ProcessLoadedDives
    \/ \E new_dive \in Range(dive_table) : GetTripForNewDive(new_dive)

SpecNewDive == InitLoad /\ [][NextNewDive]_vars

-----------------------------------------------------------------------------

(* Properties of the tables *)

DiveTableSorted(w, tab) ==
    \A k \in 1..(Len(tab) - 1) : ~dive_less_than(w, tab[k + 1], tab[k])

TripTableSorted(w, tab) ==
    \A k \in 1..(Len(tab) - 1) : ~trip_less_than(w, tab[k + 1], tab[k])

DiveTableIsSorted == DiveTableSorted(World, dive_table)

TripTableIsSorted == TripTableSorted(World, trip_table)

\* the trips that are allocated and not freed
LiveTrips == {t \in 1..Len(trip) : ~trip[t].freed}

\* d.divetrip = t if and only if d is an element of t.dives, for the dives
\* of the global dive table
MembershipConsistent ==
    \A d \in Range(dive_table) : \A t \in LiveTrips :
        (dive[d].divetrip = t) <=> (d \in Range(trip[t].dives))

\* C1: after process_loaded_dives the global dive table is sorted by
\* dive_less_than: no entry is less than the entry before it, also when
\* autogrouping has given dives a trip.
C1_SortedAfterLoad ==
    pc = "idle" => DiveTableIsSorted

\* C2: add_imported_dives keeps the global dive table sorted: when it is
\* entered with the dive table and the trip table sorted and the trip
\* membership consistent, the dive table is sorted by dive_less_than when it
\* returns.  (The planner leaves the global tables alone, so the state in
\* which the plan is applied shows the tables as they were on entry.)
C2_ImportKeepsDiveTableSorted ==
    [][(/\ pc = "planned"
        /\ pc' = "idle"
        /\ DiveTableIsSorted
        /\ TripTableIsSorted
        /\ MembershipConsistent) => DiveTableIsSorted']_vars

\* no trip of the global trip table is without dives
NoEmptyTrip == \A t \in Range(trip_table) : Len(trip[t].dives) > 0

\* C3: the global trip table is sorted by trip_less_than in every state
\* reached from a loaded file by insert_trip, add_dive_to_trip,
\* remove_dive_from_trip and delete_single_dive, also when such a call has
\* changed the first dive of a trip.  (Left aside are the states with a
\* stale entry in a trip list, which only a caller that breaks
\* add_dive_to_trip's contract produces, and the states in which
\* unregister_dive_from_trip has left an empty trip in the table.)
C3_TripTableSorted ==
    (pc = "idle" /\ StrayEntries = {} /\ NoEmptyTrip) => TripTableIsSorted

\* C4: between the calls of process_loaded_dives and add_imported_dives,
\* for every dive d of the global dive table and every trip t, d.divetrip = t
\* if and only if d is an element of t.dives.
C4_MembershipConsistent ==
    pc = "idle" => MembershipConsistent

\* the places of dive d in the lists of the trips
Listings(d) ==
    {e \in LiveTrips \X (1..MaxTableLen) :
        /\ e[2] <= Len(trip[e[1]].dives)
        /\ trip[e[1]].dives[e[2]] = d}

\* no dive is in the list of two trips or twice in the list of one
OneTripPerDive == \A d \in 1..Len(dive) : Cardinality(Listings(d)) <= 1

\* C5 as stated: a dive belongs to at most one trip after any sequence of
\* add_dive_to_trip, unregister_dive_from_trip and remove_dive_from_trip,
\* add_dive_to_trip on a dive that has a different trip included.
C5_OneTripPerDive_AnyCall ==
    pc = "idle" => OneTripPerDive

\* every entry of a trip's list is a dive of that trip, and no dive has two
\* entries
TripListsSound == StrayEntries = {} /\ OneTripPerDive

\* C5 for callers that keep to the contract of add_dive_to_trip: where every
\* entry of a trip's list is a dive of that trip and no dive has two entries,
\* this is still so after add_dive_to_trip on a dive that has no trip or is
\* in that trip already, after unregister_dive_from_trip and after
\* remove_dive_from_trip.
C5_OneTripPerDive ==
    [][/\ \A d \in Range(dive_table), t \in Range(trip_table) :
              (/\ TripListsSound
               /\ dive[d].divetrip \in {NULL, t}
               /\ AddDiveToTrip(d, t)) => TripListsSound'
       /\ \A d \in Range(dive_table) :
              (/\ TripListsSound
               /\ UnregisterDiveFromTrip(d) \/ RemoveDiveFromTrip(d))
              => TripListsSound']_vars

\* a dive was taken out of its trip, which is left empty, and put into
\* another one as the contract of add_dive_to_trip has it: all the dives
\* are in one trip now
C5_Witness ==
    /\ pc = "idle"
    /\ OneTripPerDive
    /\ \E t1, t2 \in Range(trip_table) :
          /\ trip[t2].dives = <<>>
          /\ Len(trip[t1].dives) = MaxDives - 1
          /\ \A d \in Range(dive_table) : dive[d].divetrip = t1

\* C7: remove_dive_from_trip and delete_single_dive leave no empty trip in
\* the trip table when there was none before the call, in particular when
\* they take the last dive of a trip; unregister_dive_from_trip on the last
\* dive of a trip leaves the trip, now empty, in the table.
C7_EmptiedTripRemoved ==
    [][/\ \A d \in Range(dive_table) :
              (NoEmptyTrip /\ RemoveDiveFromTrip(d)) => NoEmptyTrip'
       /\ \A idx \in 0..(Len(dive_table) - 1) :
              (NoEmptyTrip /\ DeleteSingleDive(idx)) => NoEmptyTrip'
       /\ \A d \in Range(dive_table) :
              (/\ dive[d].divetrip \in Range(trip_table)
               /\ trip[dive[d].divetrip].dives = <<d>>
               /\ UnregisterDiveFromTrip(d))
              => /\ trip_table' = trip_table
                 /\ trip'[dive[d].divetrip].dives = <<>>
                 /\ ~trip'[dive[d].divetrip].freed]_vars

\* one trip lost its last dive to remove_dive_from_trip or
\* delete_single_dive and is gone, another lost it to
\* unregister_dive_from_trip and is still in the table
C7_Witness ==
    /\ pc = "idle"
    /\ \E t \in 1..Len(trip) : trip[t].freed /\ t \notin Range(trip_table)
    /\ \E t \in Range(trip_table) : ~trip[t].freed /\ trip[t].dives = <<>>

-----------------------------------------------------------------------------
(* The selection counter *)

SelectedInTable == {d \in Range(dive_table) : dive[d].selected}

-----------------------------------------------------------------------------
(* The import planner *)

\* what process_imported_dives must leave alone: the global tables, the
\* trips of the global trip table, the trip, number and selection of the
\* dives of the global dive table, the selection counter and the current dive
LiveCollection ==
    <<dive_table, trip_table,
      [t \in Range(trip_table) |-> trip[t]],
      [d \in Range(dive_table) |->
          <<dive[d].divetrip, dive[d].number, dive[d].selected>>],
      amount_selected, current_dive>>

\* C8: no step of process_imported_dives changes the live collection.
C8_PlannerLeavesLiveCollection ==
    [][(pc \in {"idle", "trip_loop"} /\ pc' # "idle")
           => (LiveCollection' = LiveCollection)]_vars

\* the plan replaces a dive of the global table by a merged dive
C8_Witness ==
    /\ pc = "planned"
    /\ Len(plan.dives_to_remove) > 0
    /\ Len(plan.dives_to_add) > 0
    /\ Range(plan.dives_to_remove) \subseteq Range(dive_table)

\* C9: process_imported_dives returns: its loop over the import trips does
\* not run on, inserting trips into trips_to_add until the table cannot grow
\* any more.
C9_PlannerReturns == pc # "exit"

Count(s, x) == Cardinality({k \in 1..Len(s) : s[k] = x})

\* the dives of a trip: those of its list and those that point to it
DivesOfTrip(t) ==
    Range(trip[t].dives) \cup {d \in 1..Len(dive) : dive[d].divetrip = t}

\* C10: when process_imported_dives has returned, every import trip that was
\* not merged into a trip of the global table is in trips_to_add exactly once
\* and each of its dives is in dives_to_add exactly once, its divetrip still
\* that trip.
C10_UnmergedTripsPlanned ==
    pc = "planned" =>
        \A t \in LiveTrips \ Range(trip_table) :
            DivesOfTrip(t) # {} =>
                /\ Count(plan.trips_to_add, t) = 1
                /\ \A d \in DivesOfTrip(t) :
                      /\ Count(plan.dives_to_add, d) = 1
                      /\ dive[d].divetrip = t

\* C11: when process_imported_dives has returned, the import dive table and
\* the import trip table both have size 0.
C11_ImportTablesConsumed ==
    pc = "planned" =>
        /\ Len(plan.import_table) = 0
        /\ Len(plan.import_trip_table) = 0

\* C12: when process_imported_dives has returned, no dive is in both
\* dives_to_add and dives_to_remove, every dive of dives_to_remove is a dive
\* of the global dive table, and no dive of dives_to_add is one.
C12_OutputsDisjoint ==
    pc = "planned" =>
        /\ Range(plan.dives_to_add) \cap Range(plan.dives_to_remove) = {}
        /\ Range(plan.dives_to_remove) \subseteq Range(dive_table)
        /\ Range(plan.dives_to_add) \cap Range(dive_table) = {}

\* the plan removes a dive of the log, adds the merged dive in its place and
\* adds a dive that was not merged
C12_Witness ==
    /\ pc = "planned"
    /\ Len(plan.dives_to_remove) > 0
    /\ Len(plan.dives_to_add) > Len(plan.dives_to_remove)

\* the dives of dives_to_add that try_to_merge_into made: an import has at
\* most one dive with a signature, so they are the dives with a signature of
\* a plan that removes a dive
MergedDives ==
    IF Len(plan.dives_to_remove) = 0 THEN {}
    ELSE {d \in Range(plan.dives_to_add) : dive[d].sig # 0}

IsAddedUnmerged(d) == d \notin MergedDives

\* the dives of dives_to_add that were not merged, in table order
UnmergedDives == SelectSeq(plan.dives_to_add, IsAddedUnmerged)

\* the last dive of the global table has a number and every added dive that
\* was not merged starts after it
RenumberCase ==
    /\ pc = "planned"
    /\ Len(dive_table) > 0
    /\ dive[dive_table[Len(dive_table)]].number # 0
    /\ \A d \in Range(UnmergedDives) :
          dive[d].when > dive[dive_table[Len(dive_table)]].when

ConsecutivelyNumbered ==
    \A k \in 1..Len(UnmergedDives) :
        dive[UnmergedDives[k]].number =
            dive[dive_table[Len(dive_table)]].number + k

\* C13: when process_imported_dives returns from an import without numbered
\* dives, the last dive of the global table has a number n and no added dive
\* sorts before it, then the dives of dives_to_add that were not merged are
\* numbered n+1, n+2, ... in table order.
C13_AddedDivesRenumbered ==
    [][(/\ pc = "trip_loop"
        /\ ~plan.new_dive_has_number
        /\ RenumberCase') => ConsecutivelyNumbered']_vars

\* the log is the single dive A without a trip, and the import was the single
\* dive Len(dive_table) + 1, a recording of A that starts within A and that
\* was in no trip when it was handed over (only autogroup_dives makes
\* autogen trips in an import)
OverlapCase(A) ==
    LET imported == Len(dive_table) + 1
    IN  /\ dive_table = <<A>>
        /\ dive[A].divetrip = NULL
        /\ \/ Len(dive) = imported
           \/ Len(dive) = imported + 1 /\ dive[imported].freed
        /\ \/ dive[imported].divetrip = NULL
           \/ trip[dive[imported].divetrip].autogen
        /\ dive[A].sig # 0
        /\ dive[imported].sig = dive[A].sig
        /\ dive[A].when <= dive[imported].when
        /\ dive[imported].when < dive_endtime(World, A)

\* the plan replaces A by the merged dive and adds no trip
OverlapMerged(A) ==
    /\ plan.dives_to_remove = <<A>>
    /\ plan.dives_to_add = <<Len(dive)>>
    /\ Len(dive) = Len(dive_table) + 2
    /\ plan.trips_to_add = <<>>

\* C14: when the log is one dive A without a trip and the import is one dive
\* without a trip that starts within A and can be merged with A,
\* process_imported_dives with IMPORT_PREFER_IMPORTED returns
\* dives_to_remove = [A], dives_to_add = [the merged dive] and an empty
\* trips_to_add, whether autogroup is on or off.
C14_OverlappingImportMerged ==
    [][(/\ pc = "trip_loop"
        /\ pc' = "planned"
        /\ plan.flags = {"IMPORT_PREFER_IMPORTED"})
           => \A A \in Range(dive_table') :
                  OverlapCase(A)' => OverlapMerged(A)']_vars

\* d is in no trip and was not taken out of one by the user
Eligible(d) == dive[d].divetrip = NULL /\ ~dive[d].notrip

\* two eligible dives a trip gap apart, and no trip
BoundaryCase ==
    /\ Len(trip_table) = 0
    /\ Len(dive_table) = 2
    /\ \A d \in Range(dive_table) : Eligible(d)
    /\ \E a, b \in Range(dive_table) :
          dive[b].when = dive[a].when + TRIP_THRESHOLD

\* no other dive of the table starts within a trip gap of d
Isolated(d) ==
    \A e \in Range(dive_table) \ {d} :
        \/ dive[e].when >= dive[d].when + TRIP_THRESHOLD
        \/ dive[d].when >= dive[e].when + TRIP_THRESHOLD

\* C15: process_loaded_dives with autogroup on leaves two eligible dives
\* whose start times differ by exactly TRIP_THRESHOLD without a trip and the
\* empty trip table empty, and it leaves every eligible dive without a trip
\* that has no other dive within TRIP_THRESHOLD.
C15_AutogroupBoundary ==
    [][(pc = "parsed" /\ autogroup) =>
          /\ BoundaryCase =>
                /\ \A d \in Range(dive_table') : dive'[d].divetrip = NULL
                /\ Len(trip_table') = 0
          /\ \A d \in Range(dive_table) :
                (Eligible(d) /\ Isolated(d)) => dive'[d].divetrip = NULL]_vars

\* C16: process_loaded_dives with autogroup on puts any two dives into the
\* same trip that are adjacent in the sorted table, were both eligible and
\* start less than TRIP_THRESHOLD apart; every trip it creates has autogen
\* set; and a table of exactly two such dives and no trip ends with a trip
\* table of size 1.
C16_CloseDivesGrouped ==
    [][(pc = "parsed" /\ autogroup) =>
          /\ \A k \in 1..(Len(dive_table') - 1) :
                LET a == dive_table'[k]
                    b == dive_table'[k + 1]
                IN  (/\ Eligible(a)
                     /\ Eligible(b)
                     /\ dive[b].when - dive[a].when < TRIP_THRESHOLD
                     /\ dive[a].when - dive[b].when < TRIP_THRESHOLD)
                        => /\ dive'[a].divetrip # NULL
                           /\ dive'[a].divetrip = dive'[b].divetrip
          /\ \A t \in (Len(trip) + 1)..Len(trip') : trip'[t].autogen
          /\ (/\ Len(dive_table) = 2
              /\ Len(trip_table) = 0
              /\ \A d \in Range(dive_table) : Eligible(d)
              /\ \A a, b \in Range(dive_table) :
                    dive[b].when - dive[a].when < TRIP_THRESHOLD)
                => Len(trip_table') = 1]_vars

\* autogrouping has put two dives that were in no trip into one new trip, in
\* a log that has another trip
C16_Witness ==
    /\ pc = "idle"
    /\ autogroup
    /\ Len(trip_table) = 2
    /\ \E t \in Range(trip_table) :
          /\ trip[t].autogen
          /\ Len(trip[t].dives) = 2

\* the imported dives that are in no trip
TriplessImported ==
    {d \in 1..Len(dive) :
        /\ ~dive[d].freed
        /\ d \notin Range(dive_table)
        /\ d \notin Range(plan.dives_to_add)
        /\ dive[d].divetrip = NULL}

\* C17: with IMPORT_ADD_TO_NEW_TRIP process_imported_dives puts every
\* imported dive that is in no import trip into dives_to_add, its divetrip
\* one newly created trip that is in trips_to_add exactly once, and adds
\* nothing to dives_to_remove for them.
C17_TriplessDivesToNewTrip ==
    [][(/\ pc = "trip_loop"
        /\ pc' = "planned"
        /\ "IMPORT_ADD_TO_NEW_TRIP" \in plan.flags
        /\ TriplessImported # {})
           => /\ \E t \in (Len(trip) + 1)..Len(trip') :
                    /\ Count(plan'.trips_to_add, t) = 1
                    /\ \A d \in TriplessImported :
                          /\ ~dive'[d].freed
                          /\ Count(plan'.dives_to_add, d) = 1
                          /\ dive'[d].divetrip = t
              /\ plan'.dives_to_remove = plan.dives_to_remove]_vars

\* an import with IMPORT_ADD_TO_NEW_TRIP has returned: two dives that could
\* have been merged or added one by one are planned for one new trip
C17_Witness ==
    /\ pc = "planned"
    /\ "IMPORT_ADD_TO_NEW_TRIP" \in plan.flags
    /\ Len(dive_table) > 0
    /\ \E t \in Range(plan.trips_to_add) :
          /\ t = Len(trip)
          /\ Cardinality({d \in Range(plan.dives_to_add) : dive[d].divetrip = t}) = 2

Max(a, b) == IF a >= b THEN a ELSE b
Min(a, b) == IF a <= b THEN a ELSE b

\* the positions of the global trip table whose trip overlaps t in time:
\* both trips hold dives and the later start is not after the earlier end
OverlappedAt(t) ==
    {k \in 1..Len(trip_table) :
        /\ Len(trip[t].dives) > 0
        /\ Len(trip[trip_table[k]].dives) > 0
        /\ Max(trip_date(World, t), trip_date(World, trip_table[k]))
              <= Min(trip_enddate(World, t), trip_enddate(World, trip_table[k]))}

FirstOverlapped(t) ==
    trip_table[CHOOSE k \in OverlappedAt(t) : \A m \in OverlappedAt(t) : k <= m]

\* the trip loop of process_imported_dives is about to handle import trip t
HandlesTrip(t) ==
    /\ pc = "trip_loop"
    /\ plan.i < Len(plan.import_trip_table)
    /\ t = plan.import_trip_table[plan.i + 1]

\* an import trip with dives that was neither merged nor planned
LeftOverTrips ==
    {t \in 1..Len(trip) :
        /\ ~trip[t].freed
        /\ Len(trip[t].dives) > 0
        /\ t \notin Range(trip_table)}

\* C18: without IMPORT_MERGE_ALL_TRIPS an import trip whose autogen is not
\* set is not merged but added to trips_to_add; with the flag an import trip
\* that overlaps a trip of the global trip table is merged into the first
\* such trip; and no import trip with dives is left over when
\* process_imported_dives returns.
C18_TripMergeCandidates ==
    [][/\ \A t \in 1..Len(trip) :
             (HandlesTrip(t) /\ pc' = "trip_loop") =>
                /\ ("IMPORT_MERGE_ALL_TRIPS" \notin plan.flags /\ ~trip[t].autogen)
                      => /\ ~trip'[t].freed
                         /\ Count(plan'.trips_to_add, t) = 1
                /\ ("IMPORT_MERGE_ALL_TRIPS" \in plan.flags /\ OverlappedAt(t) # {})
                      => /\ trip'[t].freed
                         /\ Count(plan'.trips_to_add, t) = 0
                         /\ \A d \in Range(trip[t].dives) :
                               \/ dive'[d].freed
                               \/ /\ Count(plan'.dives_to_add, d) = 1
                                  /\ dive'[d].divetrip = FirstOverlapped(t)
       /\ (pc # "planned" /\ pc' = "planned") => LeftOverTrips' = {}]_vars

-----------------------------------------------------------------------------
(* The current dive *)

\* the positions of the selected dives of the global dive table
SelectedAt == {k \in 1..Len(dive_table) : dive[dive_table[k]].selected}

\* first position of d in the global dive table
PositionOf(d) == CHOOSE k \in 1..Len(dive_table) :
                     dive_table[k] = d /\ \A m \in 1..(k - 1) : dive_table[m] # d

\* the selected dive nearest to position p: the last one before p if there
\* is one, else the first one after p, else NULL
NearestSelected(p) ==
    LET before == {k \in SelectedAt : k < p}
        after == {k \in SelectedAt : k > p}
    IN  IF before # {}
        THEN dive_table[CHOOSE k \in before : \A m \in before : m <= k]
        ELSE IF after # {}
        THEN dive_table[CHOOSE k \in after : \A m \in after : k <= m]
        ELSE NULL

\* C19: deselect_dive on the current dive, which is selected, clears its
\* selected flag, takes one off amount_selected and makes the nearest dive
\* that is still selected the current dive, looking backwards in the table
\* first and forwards then; the current dive is NULL when no dive is
\* selected any more.
C19_DeselectCurrentDive ==
    [][\A d \in Range(dive_table) :
          (/\ current_dive = d
           /\ dive[d].selected
           /\ DeselectDive(d))
             => /\ ~dive'[d].selected
                /\ amount_selected' = amount_selected - 1
                /\ current_dive' = NearestSelected(PositionOf(d))']_vars

\* the middle one of three selected dives, which was the current dive, has
\* been deselected: the dive before it is the current dive
C19_Witness ==
    /\ pc = "idle"
    /\ Len(dive_table) = 3
    /\ SelectedAt = {1, 3}
    /\ amount_selected = 2
    /\ current_dive = dive_table[1]

-----------------------------------------------------------------------------
(* Seeding the decompression state *)

\* the dives of the table that started before B and had not ended when B
\* started
OverlappingBefore(B) ==
    {A \in Range(dive_table) :
        /\ dive[A].when < dive[B].when
        /\ dive_endtime(World, A) > dive[B].when}

\* C20: init_decompression(ds, B) returns a negative value whenever a dive A
\* of the global dive table starts before B and ends after B's start,
\* whatever the trips of A and B.
C20_OverlapDetected ==
    (pc = "idle" /\ deco_result[1] # NULL) =>
        (OverlappingBefore(deco_result[1]) # {} => deco_result[2] < 0)

-----------------------------------------------------------------------------
(* Taking a dive out and putting it back *)

\* the global dive table as it was before unregister_dive(i) returned d:
\* unregister_dive closes the gap at index i and changes no key of the order
TableBeforeUnregister == add_to_table(dive_table, last_call[2], last_call[3])

-----------------------------------------------------------------------------
(* Importing in batches *)

\* no two dives of the heap overlap in time
NonOverlapping ==
    \A a, b \in 1..Len(dive) :
        a # b => \/ dive_endtime(World, a) <= dive[b].when
                 \/ dive_endtime(World, b) <= dive[a].when

\* what a log shows of its tables: start time and number of the dives in
\* table order, and the start times of the dives of the trips in table order
TablesShown(w) ==
    <<[k \in 1..Len(w.dive_table) |->
          <<w.dive[w.dive_table[k]].when, w.dive[w.dive_table[k]].number>>],
      [k \in 1..Len(w.trip_table) |->
          [j \in 1..Len(w.trip[w.trip_table[k]].dives) |->
              w.dive[w.trip[w.trip_table[k]].dives[j]].when]]>>

\* the dives of the heap as they were handed to add_imported_dives: not
\* numbered and in no trip
AsImported ==
    [d \in 1..Len(dive) |->
        NewDive(dive[d].when, dive[d].duration, dive[d].notrip, 0, dive[d].sig)]

\* one call of add_imported_dives that brings all dives of the heap to the
\* empty log
ImportedAtOnce ==
    add_imported_dives(
        ImportWorld([dive |-> <<>>, trip |-> <<>>, dive_table |-> <<>>,
                     trip_table |-> <<>>, amount_selected |-> 0,
                     current_dive |-> NULL, autogroup |-> autogroup],
                    AsImported, [d \in 1..Len(dive) |-> NULL], <<>>),
        {})

\* C22: pairwise non-overlapping dives imported into an empty log by
\* successive add_imported_dives calls, in any split and order, leave the
\* same dive table, trip table and dive numbers as one call with all of them.
C22_BatchesLikeOneCall ==
    (/\ pc = "idle"
     /\ imports >= 1
     /\ NonOverlapping
     /\ ImportedAtOnce.ended)
        => TablesShown(World) = TablesShown(ImportedAtOnce.w)

-----------------------------------------------------------------------------
(* The order of the dives *)

\* C23: dive_less_than is a strict total order on the dives of a log: no
\* dive is less than itself, of two different dives exactly one is less than
\* the other, a < b and b < c give a < c, and of two dives of the same start
\* time the one with a trip is less than the one without.
C23_DiveLessThanStrictTotalOrder ==
    last_call[1] = "dive_less_than" =>
        LET a == last_call[2][1]
            b == last_call[2][2]
            less == last_call[3]
        IN  /\ a = b => ~less
            /\ less => ~dive_less_than(World, b, a)
            /\ a # b => (less \/ dive_less_than(World, b, a))
            /\ \A c \in Range(dive_table) :
                  (less /\ dive_less_than(World, b, c))
                      => dive_less_than(World, a, c)
            /\ (/\ dive[a].when = dive[b].when
                /\ dive[a].divetrip # NULL
                /\ dive[b].divetrip = NULL) => less

\* two dives of the same start time in different trips were compared: the
\* one with the higher id is less because its trip starts earlier
C23_Witness ==
    /\ last_call[1] = "dive_less_than"
    /\ last_call[3]
    /\ last_call[2][1] > last_call[2][2]
    /\ dive[last_call[2][1]].when = dive[last_call[2][2]].when
    /\ dive[last_call[2][1]].divetrip # NULL
    /\ dive[last_call[2][2]].divetrip # NULL
    /\ dive[last_call[2][1]].divetrip # dive[last_call[2][2]].divetrip

-----------------------------------------------------------------------------
(* Looking dives up by time *)

\* the timestamps up to the one of the last call
UpToLastCall == {w1 \in QueryTimes : w1 <= last_call[2]}

\* C24 as stated: over a sorted global dive table the id returned by
\* get_dive_id_closest_to does not decrease when the timestamp grows.
C24_ClosestIdMonotone ==
    (last_call[1] = "get_dive_id_closest_to" /\ DiveTableIsSorted) =>
        \A w1 \in UpToLastCall :
            get_dive_id_closest_to(World, w1) <= last_call[3]

\* C24, amended: over a sorted global dive table the dive returned by
\* get_dive_id_closest_to does not move towards the start of the table when
\* the timestamp grows: its position in the table does not decrease.
C24_ClosestPositionMonotone ==
    (/\ last_call[1] = "get_dive_id_closest_to"
     /\ DiveTableIsSorted
     /\ Len(dive_table) > 0) =>
        \A w1 \in UpToLastCall :
            PositionOf(get_dive_id_closest_to(World, w1)) <= PositionOf(last_call[3])

\* in a sorted table of three dives the call has returned the last dive,
\* and an earlier timestamp gives the first dive, whose id is higher
C24_Witness ==
    /\ last_call[1] = "get_dive_id_closest_to"
    /\ DiveTableIsSorted
    /\ Len(dive_table) = 3
    /\ last_call[3] = dive_table[3]
    /\ \E w1 \in UpToLastCall :
          /\ get_dive_id_closest_to(World, w1) = dive_table[1]
          /\ dive_table[1] > dive_table[3]

\* distance of the start of dive d to the timestamp of the last call
DistanceToCall(d) ==
    IF dive[d].when >= last_call[2]
    THEN dive[d].when - last_call[2]
    ELSE last_call[2] - dive[d].when

\* the dives of the table whose start is nearest to the timestamp of the
\* last call
NearestDives ==
    {d \in Range(dive_table) :
        \A e \in Range(dive_table) : DistanceToCall(d) <= DistanceToCall(e)}

\* C25: get_dive_id_closest_to(when) returns 0 for an empty table, the id of
\* the dive of a table of one dive and, for a longer sorted table, the id of
\* a dive whose start is nearest to when; when a dive before and a dive
\* after when are equally near, it returns the later one.
C25_ClosestDive ==
    (last_call[1] = "get_dive_id_closest_to" /\ DiveTableIsSorted) =>
        /\ Len(dive_table) = 0 => last_call[3] = 0
        /\ Len(dive_table) = 1 => last_call[3] = dive_table[1]
        /\ Len(dive_table) > 1 =>
              /\ last_call[3] \in NearestDives
              /\ (\E e, l \in NearestDives :
                     dive[e].when < last_call[2] /\ last_call[2] < dive[l].when)
                    => dive[last_call[3]].when > last_call[2]

\* the call was for a time halfway between two dives of a table of three
\* dives, and it has returned the later one of the two
C25_Witness ==
    /\ last_call[1] = "get_dive_id_closest_to"
    /\ DiveTableIsSorted
    /\ Len(dive_table) = 3
    /\ \E e, l \in NearestDives :
          /\ dive[e].when < last_call[2]
          /\ last_call[2] < dive[l].when
          /\ last_call[3] = l

\* C26: get_surface_interval(when), on a sorted table, looks at the dive p
\* that started last before when: it returns -1 when there is no such dive,
\* 0 when p ends after when, and when - dive_endtime(p) otherwise, a value
\* that is not negative.
C26_SurfaceInterval ==
    (last_call[1] = "get_surface_interval" /\ DiveTableIsSorted) =>
        LET when == last_call[2]
            before == {k \in 1..Len(dive_table) : dive[dive_table[k]].when < when}
            p == dive_table[CHOOSE k \in before : \A m \in before : m <= k]
        IN  /\ before = {} => last_call[3] = -1
            /\ before # {} =>
                  /\ \A k \in before : dive[dive_table[k]].when <= dive[p].when
                  /\ dive_endtime(World, p) > when => last_call[3] = 0
                  /\ dive_endtime(World, p) <= when
                        => last_call[3] = when - dive_endtime(World, p)
            /\ last_call[3] >= -1

\* the call was for a time inside the dive that started last before it,
\* after an earlier dive had ended
C26_Witness ==
    /\ last_call[1] = "get_surface_interval"
    /\ DiveTableIsSorted
    /\ Len(dive_table) >= 2
    /\ last_call[3] = 0
    /\ dive[dive_table[1]].when < dive[dive_table[2]].when
    /\ dive_endtime(World, dive_table[1]) < last_call[2]
    /\ dive[dive_table[2]].when < last_call[2]
    /\ dive_endtime(World, dive_table[2]) > last_call[2]

-----------------------------------------------------------------------------
(* The gas of a dive *)

\* the cylinders of the last get_dive_gas call that are used and not empty
UsedCylinders ==
    {cyl \in Range(dive[last_call[2]].cylinder) : cyl[3] /\ ~cyl[4]}

AllAir == \A cyl \in UsedCylinders : cyl[1] = O2_IN_AIR /\ cyl[2] = 0

\* the used cylinders that win: highest He, and highest O2 among those
Winners ==
    {cyl \in UsedCylinders :
        \A other \in UsedCylinders :
            \/ cyl[2] > other[2]
            \/ cyl[2] = other[2] /\ cyl[1] >= other[1]}

\* C27: for a dive with a used, non-empty cylinder that is not air,
\* get_dive_gas reports the highest He as he, the highest O2 as o2max, and
\* as o2 the O2 of the cylinder with the highest He, the highest O2 deciding
\* between cylinders of the same He, whatever the order of the cylinders.
C27_GasOfWinningCylinder ==
    (last_call[1] = "get_dive_gas" /\ UsedCylinders # {} /\ ~AllAir) =>
        /\ \E cyl \in UsedCylinders : cyl[2] = last_call[3][2]
        /\ \A cyl \in UsedCylinders : cyl[2] <= last_call[3][2]
        /\ \E cyl \in UsedCylinders : cyl[1] = last_call[3][3]
        /\ \A cyl \in UsedCylinders : cyl[1] <= last_call[3][3]
        /\ \E cyl \in Winners : cyl[1] = last_call[3][1]

\* C28: for a dive whose used, non-empty cylinders are all air, and for a
\* dive without a used, non-empty cylinder, get_dive_gas reports o2 = 0,
\* he = 0 and o2max = 0; it never reports a negative value.
C28_AirCollapses ==
    last_call[1] = "get_dive_gas" =>
        /\ AllAir => last_call[3] = <<0, 0, 0>>
        /\ last_call[3][1] >= 0
        /\ last_call[3][2] >= 0
        /\ last_call[3][3] >= 0

-----------------------------------------------------------------------------
(* CNS *)

\* mean po2 of the segment of the last call
MeanPO2 == (last_call[2][1] + last_call[2][2]) \div 2

\* the rows of the C table whose po2 is strictly below the mean po2
RowsBelow == {r \in 0..(Len(cns_table) - 1) : cns_table[r + 1][1] < MeanPO2}

\* C29: for a segment with a mean po2 above 500 mbar calculate_cns_dive
\* reads the first row of cns_table, counted from the 1600 mbar row, whose
\* po2 is strictly below the mean po2, and that row is a row of the table.
C29_CnsTableRow ==
    (last_call[1] = "calculate_cns_dive" /\ MeanPO2 > 500) =>
        /\ last_call[3] \in 0..(Len(cns_table) - 1)
        /\ last_call[3] \in RowsBelow
        /\ \A r \in RowsBelow : last_call[3] <= r

-----------------------------------------------------------------------------
(* The dirty flag *)

\* a call of mark_divelist_changed(changed) calls updateWindowTitle() once
\* when changed differs from the flag, and not at all when it is equal
TitleFollowsFlag(changed) ==
    title_updates' =
        IF dive_list_changed # changed THEN title_updates + 1 ELSE title_updates

\* C30: mark_divelist_changed(c) calls updateWindowTitle() exactly when c
\* differs from the dirty flag; unsaved_changes() returns the argument of
\* the last mark_divelist_changed call, and false when there was none; the
\* flag is set when add_imported_dives returns.
C30_DirtyFlag ==
    /\ [](/\ last_call = NoCall => unsaved_changes(dive_list_changed) = 0
          /\ last_call[1] = "mark_divelist_changed"
                => unsaved_changes(dive_list_changed) = unsaved_changes(last_call[2]))
    /\ [][/\ \A changed \in BOOLEAN :
                MarkDivelistChanged(changed) => TitleFollowsFlag(changed)
          /\ ApplyPlan => (dive_list_changed' /\ TitleFollowsFlag(TRUE))]_vars

\* the log was changed by an import and saved afterwards: the title was
\* updated twice and nothing is unsaved
C30_Witness ==
    /\ pc = "idle"
    /\ imports >= 1
    /\ Len(dive_table) > 0
    /\ last_call = <<"mark_divelist_changed", FALSE, 0>>
    /\ title_updates = 2
    /\ unsaved_changes(dive_list_changed) = 0

\* C31: add_single_dive(idx, dive) with a negative idx adds the dive at the
\* position given by the dive_less_than order: afterwards the table holds
\* the dives it held before and that dive, each once, and is sorted.
C31_AddSingleDiveOrdered ==
    (last_call[1] = "add_single_dive" /\ last_call[2] < 0) =>
        /\ Len(dive_table) = Len(dive)
        /\ Range(dive_table) = 1..Len(dive)
        /\ DiveTableIsSorted

\* C32: after process_imported_dives no dive occurs more than once in
\* dives_to_remove: an existing dive is merged into at most once per import.
C32_RemovedOnce ==
    pc = "planned" =>
        \A d \in Range(plan.dives_to_remove) :
            Count(plan.dives_to_remove, d) = 1

\* C33: deselect_dive changes current_dive only when the deselected dive was
\* the current dive, and deselecting a dive that is not selected changes
\* nothing at all.
C33_DeselectFrame ==
    [][\A d \in Range(dive_table) :
           DeselectDive(d) =>
               /\ current_dive # d => current_dive' = current_dive
               /\ ~dive[d].selected => UNCHANGED vars]_vars

\* C34: current_dive is always NULL or a dive of the global dive table, and
\* never a dive that has been freed.
C34_CurrentDiveInTable ==
    \/ current_dive = NULL
    \/ /\ current_dive \in Range(dive_table)
       /\ ~dive[current_dive].freed

\* the positions (from 1) of the dives of the global table that are not
\* hidden
VisiblePositions ==
    {k \in 1..Len(dive_table) : ~dive[dive_table[k]].hidden_by_filter}

\* r is the dive the search for a visible dive next to when has to return:
\* the nearest visible dive older than when, or else the nearest newer one,
\* or NULL if every dive is hidden
NextVisibleDive(when, r) ==
    LET Older == {k \in VisiblePositions : dive[dive_table[k]].when < when}
        Newer == VisiblePositions \ Older
    IN  /\ (r = NULL) <=> (VisiblePositions = {})
        /\ Older # {} =>
               r = dive_table[CHOOSE k \in Older : \A x \in Older : x <= k]
        /\ (Older = {} /\ Newer # {}) =>
               r = dive_table[CHOOSE k \in Newer : \A x \in Newer : k <= x]

\* C35: find_next_visible_dive(when) returns NULL only when every dive of
\* the global table is hidden; otherwise it returns the nearest visible dive
\* older than when (down to index 0) or, if there is none, the nearest newer
\* visible dive.
C35_NextVisibleDive ==
    [][\A when \in QueryTimes :
           FindNextVisibleDive(when) => NextVisibleDive(when, last_call'[3])]_vars

\* C36: autogroup_dives, called by process_loaded_dives on the sorted
\* tables, gives no trip to a dive whose notrip flag is set, leaves the trip
\* of a dive that has one, and with the autogroup toggle off changes no
\* dive, no trip and not the (sorted) trip table; with the toggle on every
\* dive with no trip and no notrip flag has a trip afterwards and is on
\* that trip's list.
C36_AutogroupEligibleOnly ==
    [][ProcessLoadedDives =>
           /\ \A d \in Range(dive_table) :
                 /\ (dive[d].divetrip = NULL /\ dive[d].notrip) =>
                        dive'[d].divetrip = NULL
                 /\ dive[d].divetrip # NULL =>
                        dive'[d].divetrip = dive[d].divetrip
                 /\ (autogroup /\ dive[d].divetrip = NULL /\ ~dive[d].notrip) =>
                        /\ dive'[d].divetrip # NULL
                        /\ d \in Range(trip'[dive'[d].divetrip].dives)
           /\ ~autogroup =>
                 /\ dive' = dive
                 /\ trip' = trip
                 /\ trip_table' = sort_trip_table(World, trip_table)]_vars

\* autogrouping has run on a log with a dive that is kept out of trips, a
\* dive of a trip of the file and a dive that it has put into a new trip
C36_Witness ==
    /\ pc = "idle"
    /\ autogroup
    /\ \E a, b, c \in Range(dive_table) :
          /\ dive[a].notrip /\ dive[a].divetrip = NULL
          /\ dive[b].divetrip # NULL /\ ~trip[dive[b].divetrip].autogen
          /\ dive[c].divetrip # NULL /\ trip[dive[c].divetrip].autogen
                /\ ~dive[c].notrip

\* the calls of the tissue model that the last init_decompression made
DecoCalls == init_decompression_calls(World, deco_result[1])

\* C37: in every init_decompression call on a dive, clear_deco is called
\* exactly once and before any add_segment; tissue_tolerance_calc is called
\* exactly once and last when the value returned is not negative, and not
\* at all when it is negative; when no prior dive is taken into account the
\* value returned is 48 hours.
C37_DecoCallOrder ==
    (pc = "idle" /\ deco_result[1] # NULL) =>
        /\ Count(DecoCalls, "clear_deco") = 1
        /\ \A k \in 1..Len(DecoCalls) :
              DecoCalls[k] = "add_segment" =>
                  \E j \in 1..(k - 1) : DecoCalls[j] = "clear_deco"
        /\ deco_result[2] >= 0 =>
              /\ Count(DecoCalls, "tissue_tolerance_calc") = 1
              /\ DecoCalls[Len(DecoCalls)] = "tissue_tolerance_calc"
        /\ deco_result[2] < 0 => Count(DecoCalls, "tissue_tolerance_calc") = 0
        /\ Count(DecoCalls, "add_dive_to_deco") = 0 =>
              deco_result[2] = FortyEightHours

\* init_decompression has taken two prior dives into account, with a
\* surface interval between them, and has returned a surface time
C37_Witness ==
    /\ pc = "idle"
    /\ deco_result[1] # NULL
    /\ deco_result[2] >= 0
    /\ Count(DecoCalls, "add_dive_to_deco") = 2
    /\ Count(DecoCalls, "add_segment") = 2

\* the dives H that calculate_cns adds up for d are dives of the history of
\* d: every one but d started before d and is of the trip of d if d has
\* one, each ends no more than 12 hours before the next one starts, and d
\* comes last and once
CnsHistory(d, H) ==
    /\ Len(H) >= 1
    /\ H[Len(H)] = d
    /\ Count(H, d) = 1
    /\ \A k \in 1..(Len(H) - 1) :
          /\ dive[H[k]].when < dive[d].when
          /\ dive[d].divetrip = NULL \/ dive[H[k]].divetrip = dive[d].divetrip
          /\ 2 * dive_endtime(World, H[k]) + 1 >= 2 * dive[H[k + 1]].when

\* C38: on a sorted global table calculate_cns(d) adds up the CNS of d,
\* once, and of dives that started before d, are not d, are of the trip of
\* d if d has one, and form a chain in which each dive ends no more than 12
\* hours before the next one (or d) starts; when d.cns is not zero the
\* stored value is returned and nothing is computed or changed.
C38_CnsHistoryWalk ==
    [][\A d \in Range(dive_table), value \in 0..MaxCns :
           CalculateCns(d, value) =>
               IF dive[d].cns # 0
               THEN /\ last_call'[3] = dive[d].cns
                    /\ calculate_cns(World, d, value).added = <<>>
                    /\ UNCHANGED <<dive, trip, dive_table, trip_table>>
               ELSE CnsHistory(d, calculate_cns(World, d, value).added)]_vars

\* calculate_cns has stored a value for a dive of a trip, computed from the
\* dive and one dive before it, in a log with an earlier dive that is not
\* of the trip
C38_Witness ==
    /\ last_call[1] = "calculate_cns"
    /\ dive[last_call[2]].cns # 0
    /\ Len(dive_table) >= 3
    /\ Len(calculate_cns_dives(World, last_call[2])) = 2
    /\ dive[last_call[2]].divetrip # NULL
    /\ \E p \in Range(dive_table) :
          /\ dive[p].when < dive[last_call[2]].when
          /\ dive[p].divetrip # dive[last_call[2]].divetrip

\* C39: for every segment with a mean po2 above 500 mbar, also above 1600
\* mbar, the maximum exposure time that calculate_cns_dive divides by is
\* strictly positive, so that the segment adds a non-negative amount to the
\* CNS value.
C39_ExposurePositive ==
    (last_call[1] = "calculate_cns_dive: divisor" /\ MeanPO2 > 500) =>
        last_call[3] > 0

\* the positions a of the global table that hold a dive with a trip and are
\* directly followed by the dive b, which has no trip and may be grouped
PrecedingTripDives(b) ==
    {a \in 0..(Len(dive_table) - 2) :
        /\ dive_table[a + 2] = b
        /\ dive[dive_table[a + 1]].divetrip # NULL
        /\ dive[b].divetrip = NULL
        /\ ~dive[b].notrip}

\* C40: for a new dive B without a trip and the dive A with a trip directly
\* before it in the global table, get_trip_for_new_dive(B) returns the trip
\* of A without allocating exactly when get_dives_to_autogroup, started at
\* A, puts B into the trip of A, also when B starts exactly TRIP_THRESHOLD
\* after A; otherwise both allocate a new autogen trip.
C40_NewDiveAgreesWithAutogroup ==
    [][\A b \in Range(dive_table) : GetTripForNewDive(b) =>
          \A a \in PrecedingTripDives(b) :
              LET t == dive[dive_table[a + 1]].divetrip
                  g == get_dives_to_autogroup(World, dive_table, a, NULL)
                  reused == last_call'[3] = <<t, FALSE>>
                  attached == g.trip = t /\ ~g.allocated /\ g.from = a + 1
              IN  /\ reused <=> attached
                  /\ ~reused =>
                        /\ last_call'[3][2]
                        /\ trip'[last_call'[3][1]].autogen
                        /\ g.allocated
                        /\ g.w.trip[g.trip].autogen]_vars

=============================================================================
